---- MODULE Spec2Model ----
(***************************************************************************)
(* A model of the ProtocolBanks Python SDK.                                *)
(*                                                                         *)
(* Part 1: the x402 authorization manager (modules/x402.py, X402Module).   *)
(* The authorization store is a dict id -> object, and every coroutine     *)
(* that awaits the backend keeps a reference to the object it looked up.   *)
(* The model keeps the dict (store: id -> object), the coroutines          *)
(* suspended at their await (calls, a bag) and the objects that left the   *)
(* dict while a coroutine still refers to them (orphans).  A call is two   *)
(* steps: the synchronous part up to the await, and the part that runs     *)
(* when the backend answers or the transport raises.  Wall-clock time is   *)
(* the variable now, in seconds.                                           *)
(*                                                                         *)
(* Not modelled: the fields of an authorization no control flow reads      *)
(* (domain, types, created_at, transaction_hash, relayer_fee, and of the   *)
(* message all but valid_after and valid_before).  expires_at is the       *)
(* datetime of a number of seconds, written as that number.  The backend   *)
(* is free to fail or to                                                   *)
(* report any status of X402Status; a record it returns is taken to parse  *)
(* into an X402Authorization whose expires_at compares with                *)
(* datetime.now().                                                         *)
(*                                                                         *)
(* Part 2: the batch module (modules/batch.py, BatchModule): validate,     *)
(* submit, get_status and retry as called by one caller that awaits each   *)
(* call, and the polling tasks poll() starts, which run beside the caller  *)
(* and beside each other.  A recipient is its address, amount, token and   *)
(* memo; an amount is a number of hundredths and a memo its length.  An    *)
(* error message is its text with the value formatted into it.  Of a       *)
(* BatchStatus the model keeps status, progress and the items' index and   *)
(* status.  The backend is free to fail, to leave out status, progress or  *)
(* items, and to report any status of BatchSubmitResult.                   *)
(*                                                                         *)
(* Part 3: payment links (modules/links.py, PaymentLinkModule, with        *)
(* utils/validation.py and utils/crypto.py): generate, verify and the two  *)
(* functions that sign.  A string is a sequence of atoms: the characters   *)
(* a query string gives a meaning to, a homoglyph, the newline, and runs   *)
(* of other characters.  urlencode and parse_qs work on the atoms,         *)
(* str and int are conversions between integers and numerals, and a        *)
(* digest is an atom made of the string that was hashed: two strings have  *)
(* one digest only when they are one string.  The clock of the module is   *)
(* the variable clock, in milliseconds.  Not modelled: short_url, the QR   *)
(* code, webhook_url and metadata, which reach neither URL nor signature.  *)
(*                                                                         *)
(* Part 4: webhooks (modules/webhooks.py, WebhookModule: sign, verify and  *)
(* parse), the address checks of utils/validation.py called on their own,  *)
(* and the errors (errors.py, types.ErrorCodes).  A payload is what        *)
(* json.loads makes of it: a text that is not JSON, a value that is not    *)
(* an object, or an object of which the model keeps id, type, timestamp,   *)
(* data and signature, each with its JSON type.  A header is a string of   *)
(* atoms, and the digest of "timestamp.payload" is an atom made of the     *)
(* pair and the secret.  The clock of the webhook module is the variable   *)
(* clock, in seconds.  An error code is the string of its atoms: PB, the   *)
(* category, the number.  Not modelled: the validation pydantic makes of   *)
(* the fields of an event other than its construction, and the limits of   *)
(* json.loads on the depth of a payload.                                   *)
(***************************************************************************)
EXTENDS Integers, Sequences, FiniteSets, Bags, TLC

\* ------------------------------------------------------------------ bounds
\* How many times the clock advances.
MaxTicks == 2
\* How many calls may be in progress at once (a call that is suspended at
\* its await, or the one that is running).
MaxCalls == 2

\* --------------------------------------------------------------- constants
DEFAULT_VALIDITY_SECONDS == 3600
MAX_VALIDITY_SECONDS == 86400
\* The floor of valid_for in _validate_params.
MIN_VALIDITY_SECONDS == 60
\* valid_for = None.
NoValidFor == -1

X402_SUPPORTED_CHAINS == {1, 137, 8453, 42161, 10}
X402_SUPPORTED_TOKENS == {"USDC", "DAI"}

\* config.CHAIN_CONFIGS, the numeric chains: chain id -> symbol -> supports_gasless.
CHAIN_CONFIGS ==
    [c \in {1, 137, 8453, 42161, 10, 56} |->
        CASE c = 1     -> [s \in {"USDC", "USDT", "DAI", "ETH"}   |-> s \in {"USDC", "DAI"}]
          [] c = 137   -> [s \in {"USDC", "USDT", "DAI", "MATIC"} |-> s \in {"USDC", "DAI"}]
          [] c = 8453  -> [s \in {"USDC", "USDT", "ETH"}          |-> s \in {"USDC"}]
          [] c = 42161 -> [s \in {"USDC", "USDT", "DAI", "ETH"}   |-> s \in {"USDC", "DAI"}]
          [] c = 10    -> [s \in {"USDC", "USDT", "DAI", "ETH"}   |-> s \in {"USDC", "DAI"}]
          [] c = 56    -> [s \in {"USDC", "USDT", "DAI", "BNB"}   |-> FALSE]]

\* types.X402Status
X402Status == {"pending", "signed", "submitted", "executed", "failed", "expired", "cancelled"}

\* types.ErrorCodes, and the error the transport raises.
X402_UNSUPPORTED_CHAIN == "PB_X402_001"
X402_UNSUPPORTED_TOKEN == "PB_X402_002"
X402_AUTHORIZATION_EXPIRED == "PB_X402_003"
X402_INVALID_SIGNATURE == "PB_X402_004"
VALID_OUT_OF_RANGE == "PB_VALID_003"
\* What validate_address / validate_amount / validate_token raise.
ValidationFailed == "PB_LINK"
\* What self._http raises (any exception of the transport).
TransportError == "PB_NET"
\* pydantic's error for a backend record that does not parse.
ModelError == "ValidationError"

\* ------------------------------------------------------------------ inputs
\* The authorization ids: what generate_uuid produces, and what callers pass.
Ids == {"x402_a", "x402_b"}

\* The clock's step, in seconds: the shortest authorization expires in one.
TickSeconds == MIN_VALIDITY_SECONDS + 1

\* A signature string "<prefix><digits hex digits><tail>".
Signatures ==
    { [prefix |-> "0x", digits |-> 130, tail |-> ""],
      [prefix |-> "0x", digits |-> 128, tail |-> ""],
      [prefix |-> "",   digits |-> 130, tail |-> ""] }

\* create_authorization's params: ok = validate_address, validate_amount
\* and validate_token all pass.
Params(ok, chain_id, token, valid_for) ==
    [ok |-> ok, chain_id |-> chain_id, token |-> token, valid_for |-> valid_for]

\* One set of params for every way through create_authorization's checks.
CreateParams ==
    { Params(FALSE, 1, "USDC", 60),
      Params(TRUE, 1, "USDC", 59),
      Params(TRUE, 1, "USDC", 86401),
      Params(TRUE, 5, "USDC", 60),
      Params(TRUE, 56, "USDC", 60),
      Params(TRUE, 8453, "DAI", 60),
      Params(TRUE, 1, "USDT", 60),
      Params(TRUE, 1, "USDC", NoValidFor),
      Params(TRUE, 8453, "USDC", 60),
      Params(TRUE, 1, "DAI", 60) }

\* The limits of valid_for, with and without valid address, amount and
\* token, and the chains and tokens at the edge of the allow-lists.
CreateParamsEdge ==
    CreateParams \cup
    { Params(TRUE, 1, "USDC", 0),
      Params(TRUE, 1, "USDC", DEFAULT_VALIDITY_SECONDS),
      Params(TRUE, 1, "USDC", MAX_VALIDITY_SECONDS),
      Params(TRUE, 137, "DAI", MAX_VALIDITY_SECONDS - 1),
      Params(TRUE, 42161, "USDC", MIN_VALIDITY_SECONDS + 1),
      Params(TRUE, 10, "DAI", NoValidFor),
      Params(TRUE, 8453, "USDT", 60),
      Params(TRUE, 8453, "ETH", 60),
      Params(TRUE, 56, "DAI", 60),
      Params(FALSE, 56, "USDC", 59) }

\* The signatures, and one that ends in a newline.
SignaturesEdge ==
    Signatures \cup
    { [prefix |-> "0x", digits |-> 130, tail |-> "\n"],
      [prefix |-> "0x", digits |-> 131, tail |-> ""],
      [prefix |-> "0x", digits |-> 130, tail |-> "0"] }

\* What the backend answers: ok = FALSE is the transport raising; status
\* "absent" is a response without that key.
StatusResponses ==
    {[ok |-> FALSE, status |-> "absent"]}
        \cup [ok : {TRUE}, status : X402Status \cup {"absent"}]

\* ----------------------------------------------------- batch: constants
\* config.MAX_BATCH_SIZE
MAX_BATCH_SIZE == 500
\* An amount string: the number it reads as, in units and hundredths; empty
\* for the empty string.
Amount(units, hundredths) == [empty |-> FALSE, units |-> units, hundredths |-> hundredths]
\* config.MIN_AMOUNT ("0.01") and config.MAX_AMOUNT ("1000000000")
MIN_AMOUNT == Amount(0, 1)
MAX_AMOUNT == Amount(1000000000, 0)
\* The longest memo validate accepts.
MAX_MEMO_LENGTH == 256
\* validation.SUPPORTED_TOKENS
SUPPORTED_TOKENS == {"USDC", "USDT", "DAI", "ETH", "MATIC", "BNB", "SOL", "BTC"}

BATCH_SIZE_EXCEEDED == "PB_BATCH_001"
BATCH_VALIDATION_FAILED == "PB_BATCH_002"
BATCH_NOT_FOUND == "PB_BATCH_003"
BATCH_ALREADY_PROCESSING == "PB_BATCH_004"

\* The statuses of BatchSubmitResult and BatchItemStatus.
BatchStatuses == {"pending", "processing", "completed", "failed"}

\* -------------------------------------------------------- batch: inputs
\* How many recipients a batch of the model has at most.
MaxRecipients == 3
\* How many polling tasks poll() starts.
MaxTasks == 2
\* How many calls of stop functions, stop_polling and stop_all_polling.
MaxStops == 2

\* An address string: body is its 40 hex digits folded to lower case ("" for
\* the empty string), upper tells whether it is written in capitals,
\* homoglyphs how many characters of ALL_HOMOGLYPHS it holds, evm whether it
\* matches EVM_ADDRESS_PATTERN.
Address(body, upper, homoglyphs, evm) ==
    [body |-> body, upper |-> upper, homoglyphs |-> homoglyphs, evm |-> evm]

NoAddress == Address("", FALSE, 0, FALSE)

\* amount = "" and memo = None.
NoAmount == [empty |-> TRUE, units |-> 0, hundredths |-> 0]
NoMemo == -1

\* "0" and "1000000000.01"
ZeroAmount == Amount(0, 0)
OverMaxAmount == Amount(MAX_AMOUNT.units, 1)

\* A BatchRecipient (or any object with these attributes).
Recipient(address, amount, token, memo) ==
    [address |-> address, amount |-> amount, token |-> token, memo |-> memo]

\* Recipients without a violation: two spellings of one address, and two
\* other addresses.
GoodRecipients ==
    { Recipient(Address("ab", TRUE, 0, TRUE), MIN_AMOUNT, "USDC", NoMemo),
      Recipient(Address("ab", FALSE, 0, TRUE), MAX_AMOUNT, "usdc", MAX_MEMO_LENGTH),
      Recipient(Address("cd", FALSE, 0, TRUE), MIN_AMOUNT, "DAI", 0) }

\* Recipients with one violation, with several, and with every one.
BadRecipients ==
    { Recipient(NoAddress, MIN_AMOUNT, "USDC", NoMemo),
      Recipient(Address("ab", FALSE, 1, FALSE), MIN_AMOUNT, "USDC", NoMemo),
      Recipient(Address("ef", FALSE, 0, FALSE), MIN_AMOUNT, "USDC", NoMemo),
      Recipient(Address("ef", FALSE, 0, FALSE), ZeroAmount, "USDC", NoMemo),
      Recipient(Address("cd", FALSE, 0, TRUE), OverMaxAmount, "XYZ", NoMemo),
      Recipient(Address("ab", FALSE, 0, TRUE), MIN_AMOUNT, "USDC", MAX_MEMO_LENGTH + 1),
      Recipient(Address("cd", TRUE, 0, TRUE), MIN_AMOUNT, "Duplicate", NoMemo),
      Recipient(NoAddress, NoAmount, "", MAX_MEMO_LENGTH + 1) }

Recipients == GoodRecipients \cup BadRecipients

\* The lists of at most n recipients.
RecipientLists(n) == UNION {[1 .. k -> Recipients] : k \in 0 .. n}

\* Lists one past the limit of the batch size: MAX_BATCH_SIZE + 1 times the
\* same recipient, one without a violation or one with every violation.
LongLists ==
    { [i \in 1 .. (MAX_BATCH_SIZE + 1) |-> r] :
        r \in { Recipient(Address("ab", TRUE, 0, TRUE), MIN_AMOUNT, "USDC", NoMemo),
                Recipient(NoAddress, NoAmount, "", MAX_MEMO_LENGTH + 1) } }

\* The recipients of the batches that are submitted.
SubmitRecipients ==
    { Recipient(Address("ab", TRUE, 0, TRUE), MIN_AMOUNT, "USDC", NoMemo),
      Recipient(Address("ef", FALSE, 0, FALSE), ZeroAmount, "USDC", NoMemo),
      Recipient(Address("cd", TRUE, 0, TRUE), MIN_AMOUNT, "Duplicate", NoMemo) }

SubmitLists(n) == UNION {[1 .. k -> SubmitRecipients] : k \in 0 .. n}

\* The batch ids: what generate_uuid produces, and what callers pass.
BatchIds == {"batch_a", "batch_b"}

\* A BatchProgress, a BatchItemStatus (without address and amount) and a
\* BatchStatus (without total_amount and created_at).
BatchProgress(total, completed, failed, pending_) ==
    [total |-> total, completed |-> completed, failed |-> failed, pending |-> pending_]

BatchItemStatus(index, status) == [index |-> index, status |-> status]

BatchStatus(status, progress, items) ==
    [status |-> status, progress |-> progress, items |-> items]

\* What the backend answers to POST /batch/submit: ok = FALSE is the
\* transport raising; status "absent" is a response without that key.
SubmitResponses ==
    {[ok |-> FALSE, status |-> "absent"]}
        \cup [ok : {TRUE}, status : BatchStatuses \cup {"absent"}]

\* What the backend answers to GET /batch/{id}: progress and items are <<>>
\* when the response has no such key.
GetResponse(ok, status, progress, items) ==
    [ok |-> ok, status |-> status, progress |-> progress, items |-> items]

GetResponses ==
    { GetResponse(FALSE, "absent", <<>>, <<>>),
      GetResponse(TRUE, "pending", <<BatchProgress(2, 0, 0, 2)>>, <<>>),
      GetResponse(TRUE, "processing", <<BatchProgress(3, 1, 1, 1)>>,
                  << <<BatchItemStatus(0, "failed"), BatchItemStatus(1, "completed"),
                       BatchItemStatus(2, "processing")>> >>),
      GetResponse(TRUE, "processing", <<>>, <<>>),
      GetResponse(TRUE, "absent", <<BatchProgress(3, 1, 2, 0)>>,
                  << <<BatchItemStatus(0, "failed"), BatchItemStatus(1, "completed"),
                       BatchItemStatus(2, "failed")>> >>),
      GetResponse(TRUE, "failed", <<BatchProgress(3, 1, 2, 0)>>,
                  << <<BatchItemStatus(2, "failed"), BatchItemStatus(0, "failed")>> >>),
      GetResponse(TRUE, "completed", <<BatchProgress(2, 2, 0, 0)>>,
                  << <<BatchItemStatus(0, "completed"), BatchItemStatus(1, "completed")>> >>) }

\* What the backend answers the get_status of a polling task: a failure, a
\* batch under way, a batch at its end.
PollResponses ==
    { GetResponse(FALSE, "absent", <<>>, <<>>),
      GetResponse(TRUE, "processing", <<BatchProgress(3, 1, 1, 1)>>,
                  << <<BatchItemStatus(0, "failed"), BatchItemStatus(1, "completed"),
                       BatchItemStatus(2, "processing")>> >>),
      GetResponse(TRUE, "completed", <<BatchProgress(2, 2, 0, 0)>>,
                  << <<BatchItemStatus(0, "completed"), BatchItemStatus(1, "completed")>> >>) }

\* retry's item_indices: None, or a list.
ItemIndices ==
    {[given |-> FALSE, indices |-> {}]}
        \cup [given : {TRUE}, indices : {{}, {0}, {1}, {0, 2}}]

\* ------------------------------------------------------------------- state
VARIABLES
    now,      \* time.time() / datetime.now(), seconds
    ticks,    \* how often the clock advanced
    store,    \* self._authorizations: id -> X402Authorization object
    orphans,  \* the objects deleted from the dict that a coroutine still holds
    used,     \* the ids already generated or passed in
    calls,    \* the coroutines suspended at their await (a bag)
    ret,      \* what the last step did: the call, its outcome, its request
    batches,        \* self._batches: batch id -> the BatchStatus objects made
                    \* for it, the last one being the one in the dict
    polling_tasks,  \* self._polling_tasks: batch id -> flag
    tasks,          \* the tasks poll() created, in the order of creation
    pending,        \* the caller's call of the batch module that is suspended
    stops,          \* how many calls that stop polling were made
    out,            \* what the last step of the batch module did
    clock,    \* time.time() / datetime.now() of the link module, milliseconds
    holding,  \* the URL the last step gave the caller, and where it is from
    res       \* what the last step of the link module did

vars == <<now, ticks, store, orphans, used, calls, ret,
          batches, polling_tasks, tasks, pending, stops, out,
          clock, holding, res>>

\* The state of the x402 module and the state of the batch module.
xvars == <<now, ticks, store, orphans, used, calls, ret>>
bvars == <<batches, polling_tasks, tasks, pending, stops, out>>
\* The state of the link module and of its caller.
lvars == <<clock, holding, res>>

\* A call's reference to the object stored under its id.
Stored == 0
\* get_status of an id that is not cached holds no object.
NoRef == -1

\* ----------------------------------------------------------------- helpers
\* A new X402Authorization object: message.valid_after, message.valid_before
\* and expires_at are its times.
Authorization(status, valid_after, valid_before, expires_at) ==
    [status |-> status, signature |-> <<>>, valid_after |-> valid_after,
     valid_before |-> valid_before, expires_at |-> expires_at]

\* What a step reports: the call (op, id), how it ended (result: "await" at
\* its await, "ok" returned, "raise" raised err), the request it sent (req),
\* the answer it resumed on (answer: "none" for the part of a call up to its
\* await, "fail" when the transport raised, else "ok" or the status in the
\* response, "absent" when it has none), the status of the authorization it
\* returned (status) and cleanup_expired's count (n).
Report(op, id, result, err, req, answer, status, n) ==
    [op |-> op, id |-> id, result |-> result, err |-> err, req |-> req,
     answer |-> answer, status |-> status, n |-> n]

Raised(op, id, err) == Report(op, id, "raise", err, "none", "none", "none", 0)
Awaiting(op, id, req) == Report(op, id, "await", "none", req, "none", "none", 0)
Returned(op, id, answer, status) == Report(op, id, "ok", "none", "none", answer, status, 0)

\* The answer of the backend, as a step reports it.
Answer(response) == IF response.ok THEN response.status ELSE "fail"

\* The report of a step of submit_signature, with the signature passed in.
WithSignature(r, signature) ==
    [f \in DOMAIN r \cup {"sig"} |-> IF f = "sig" THEN signature ELSE r[f]]

\* The report of a step of create_authorization, with the params passed in.
WithParams(r, params) ==
    [f \in DOMAIN r \cup {"params"} |-> IF f = "params" THEN params ELSE r[f]]

Call(op, id, ref, sig) == [op |-> op, id |-> id, ref |-> ref, sig |-> sig]

Started(c) == calls (+) SetToBag({c})
Finished(c) == calls (-) SetToBag({c})

\* The object a suspended coroutine holds.
Obj(c) == IF c.ref = Stored THEN store[c.id] ELSE orphans[c.ref]

\* The orphans some coroutine of cs still holds.
Collect(orph, cs) == [k \in {c.ref : c \in BagToSet(cs)} \cap DOMAIN orph |-> orph[k]]

FreeRef(orph) == CHOOSE k \in 1 .. (Cardinality(DOMAIN orph) + 1) : k \notin DOMAIN orph

\* The object stored under id leaves the dict: the coroutines that hold it
\* keep it, as an orphan.
Detach(st, id) ==
    LET cs == st.calls
        held == \E c \in BagToSet(cs) : c.id = id /\ c.ref = Stored
        k == FreeRef(st.orphans)
        moved(c) == IF c.id = id /\ c.ref = Stored THEN [c EXCEPT !.ref = k] ELSE c
    IN  IF ~held THEN st
        ELSE [calls |-> [d \in {moved(c) : c \in BagToSet(cs)} |->
                            cs[CHOOSE c \in BagToSet(cs) : moved(c) = d]],
              orphans |-> (k :> st.rec[id]) @@ st.orphans,
              rec |-> st.rec]

RECURSIVE DetachAll(_, _)
DetachAll(st, ids) ==
    IF ids = {} THEN st
    ELSE LET i == CHOOSE i \in ids : TRUE IN DetachAll(Detach(st, i), ids \ {i})

\* ------------------------------------------------------- private methods
\* _is_expired with the comparison the wrong way round.
IsExpiredReversed(auth) == auth.expires_at > now

\* _is_expired: datetime.now() > auth.expires_at
IsExpired(auth) == now > auth.expires_at

\* _is_final_status without "cancelled".
IsFinalStatusNoCancelled(status) == status \in {"executed", "failed", "expired"}

\* _is_final_status
IsFinalStatus(status) == status \in {"executed", "failed", "expired", "cancelled"}

\* _is_valid_signature: re.match(r"^0x[a-fA-F0-9]{130}$"); $ also matches
\* before one trailing newline.
IsValidSignature(sig) ==
    sig.prefix = "0x" /\ sig.digits = 130 /\ sig.tail \in {"", "\n"}

\* is_chain_supported
IsChainSupported(chain_id) == chain_id \in X402_SUPPORTED_CHAINS

\* config.get_token_config(chain_id, token) is not None
HasTokenConfig(chain_id, token) ==
    chain_id \in DOMAIN CHAIN_CONFIGS /\ token \in DOMAIN CHAIN_CONFIGS[chain_id]

\* is_token_supported without the look at supports_gasless.
IsTokenSupportedAnyConfig(chain_id, token) ==
    IF ~IsChainSupported(chain_id) THEN FALSE
    ELSE HasTokenConfig(chain_id, token)

\* is_token_supported
IsTokenSupported(chain_id, token) ==
    IF ~IsChainSupported(chain_id) THEN FALSE
    ELSE IF HasTokenConfig(chain_id, token) THEN CHAIN_CONFIGS[chain_id][token]
    ELSE FALSE

\* _validate_params without the ceiling of valid_for.
ValidateParamsNoCeiling(params) ==
    IF ~params.ok THEN ValidationFailed
    ELSE IF params.valid_for # NoValidFor /\ params.valid_for < MIN_VALIDITY_SECONDS
         THEN VALID_OUT_OF_RANGE
    ELSE "none"

\* _validate_params: the error it raises, "none" when it passes.
ValidateParams(params) ==
    IF ~params.ok THEN ValidationFailed
    ELSE IF params.valid_for # NoValidFor
            /\ (params.valid_for < MIN_VALIDITY_SECONDS
                \/ params.valid_for > MAX_VALIDITY_SECONDS)
         THEN VALID_OUT_OF_RANGE
    ELSE "none"

Min(a, b) == IF a < b THEN a ELSE b

\* valid_for = min(params.valid_for or DEFAULT_VALIDITY_SECONDS, MAX_VALIDITY_SECONDS)
ValidFor(params) ==
    Min(IF params.valid_for = NoValidFor \/ params.valid_for = 0
        THEN DEFAULT_VALIDITY_SECONDS ELSE params.valid_for,
        MAX_VALIDITY_SECONDS)

\* ------------------------------------------------------- batch: helpers
\* What a step of the batch module reports: the call (op, id, its argument
\* arg), how it ended (result: "await" at its await, "ok" returned, "raise"
\* raised err), the request it sent (req, with the item indices sent), the
\* answer it resumed on (answer: "none" for the part of a call up to its
\* await, "fail" when the transport raised, else "ok" or, for submit, the
\* status in the response, "absent" when it has none; "sent" for the answer
\* to retry's own request) and what it returned (value).
BatchReport(op, id, arg, result, err, req, sent, answer, value) ==
    [op |-> op, id |-> id, arg |-> arg, result |-> result, err |-> err, req |-> req,
     sent |-> sent, answer |-> answer, value |-> value]

\* ------------------------------------------------------ batch: validate
\* detect_homoglyphs(address) is not None
DetectHomoglyphs(address) == address.homoglyphs > 0

\* validation.is_valid_address(address), without a chain: the EVM pattern.
IsValidAddress(address) == ~DetectHomoglyphs(address) /\ address.evm

\* address.lower()
Lower(address) == [address EXCEPT !.upper = FALSE]

\* a <= b, for amounts.
AtMost(a, b) ==
    a.units < b.units \/ (a.units = b.units /\ a.hundredths <= b.hundredths)

\* validation.is_valid_amount
IsValidAmount(amount) ==
    /\ ~amount.empty
    /\ ~AtMost(amount, ZeroAmount)
    /\ AtMost(MIN_AMOUNT, amount)
    /\ AtMost(amount, MAX_AMOUNT)

\* token.upper(), for the tokens of the inputs.
Upper(token) ==
    CASE token = "usdc" -> "USDC"
      [] token = "Duplicate" -> "DUPLICATE"
      [] OTHER -> token

\* validation.is_valid_token
IsValidToken(token) == Upper(token) \in SUPPORTED_TOKENS

\* An error message: its text, and the token or the count formatted into it.
Message(text, token, n) == [text |-> text, token |-> token, n |-> n]

\* f"Duplicate address (appears {n} times)"
DuplicateMessage(n) == Message("Duplicate address (appears {n} times)", "", n)

\* "Duplicate" in text, for the tokens of the inputs.
TextHasDuplicate(text) == text \in {"Duplicate", "Duplicate address (appears {n} times)"}

\* "Duplicate" in err: a substring test on the formatted message.
HasDuplicate(err) == TextHasDuplicate(err.text) \/ TextHasDuplicate(err.token)

AddressErrors(recipient) ==
    IF recipient.address.body = "" THEN <<Message("Address is required", "", 0)>>
    ELSE IF DetectHomoglyphs(recipient.address)
    THEN <<Message("Address contains suspicious characters (possible homoglyph attack)",
                   "", 0)>>
    ELSE IF ~IsValidAddress(recipient.address)
    THEN <<Message("Invalid address format", "", 0)>>
    ELSE <<>>

AmountErrors(recipient) ==
    IF recipient.amount.empty THEN <<Message("Amount is required", "", 0)>>
    ELSE IF ~IsValidAmount(recipient.amount)
    THEN <<Message("Invalid amount (must be positive, max 1 billion)", "", 0)>>
    ELSE <<>>

TokenErrors(recipient) ==
    IF recipient.token = "" THEN <<Message("Token is required", "", 0)>>
    ELSE IF ~IsValidToken(recipient.token)
    THEN <<Message("Unsupported token: {token}", recipient.token, 0)>>
    ELSE <<>>

MemoErrors(recipient) ==
    IF recipient.memo > 0 /\ recipient.memo > MAX_MEMO_LENGTH
    THEN <<Message("Memo exceeds maximum length of 256 characters", "", 0)>>
    ELSE <<>>

\* recipient_errors, stopping at the first violation.
RecipientErrorsFirstOnly(recipient) ==
    LET all == AddressErrors(recipient) \o AmountErrors(recipient)
                  \o TokenErrors(recipient) \o MemoErrors(recipient)
    IN  IF all = <<>> THEN <<>> ELSE <<Head(all)>>

\* recipient_errors of one turn of the loop over the recipients.
RecipientErrors(recipient) ==
    AddressErrors(recipient) \o AmountErrors(recipient)
        \o TokenErrors(recipient) \o MemoErrors(recipient)

\* A BatchValidationError.
ValidationError(index, address, errors) ==
    [index |-> index, address |-> address, errors |-> errors]

\* The loop over the recipients, from the i-th (index i - 1) on.
RECURSIVE CheckRecipients(_, _, _)
CheckRecipients(recipients, i, errors) ==
    IF i > Len(recipients) THEN errors
    ELSE LET recipient_errors == RecipientErrors(recipients[i])
         IN  CheckRecipients(recipients, i + 1,
                 IF recipient_errors # <<>>
                 THEN Append(errors, ValidationError(i - 1, recipients[i].address,
                                                     recipient_errors))
                 ELSE errors)

\* Where counts holds address (0 when it does not).
KeyOf(counts, address) ==
    IF \E k \in 1 .. Len(counts) : counts[k].address = address
    THEN CHOOSE k \in 1 .. Len(counts) : counts[k].address = address
    ELSE 0

\* address_counts, a dict in the order of insertion, from the i-th recipient on.
RECURSIVE CountAddresses(_, _, _)
CountAddresses(recipients, i, counts) ==
    IF i > Len(recipients) THEN counts
    ELSE IF recipients[i].address.body = "" THEN CountAddresses(recipients, i + 1, counts)
    ELSE LET address == Lower(recipients[i].address)
             k == KeyOf(counts, address)
         IN  CountAddresses(recipients, i + 1,
                 IF k = 0
                 THEN Append(counts, [address |-> address, indices |-> <<i - 1>>])
                 ELSE [counts EXCEPT ![k].indices = Append(@, i - 1)])

\* The search for an entry of index that finds none.
ExistingNever(errors, index) == 0

\* next((e for e in errors if e.index == index), None), as a position.
Existing(errors, index) ==
    IF \E k \in 1 .. Len(errors) : errors[k].index = index
    THEN CHOOSE k \in 1 .. Len(errors) :
            /\ errors[k].index = index
            /\ \A j \in 1 .. (k - 1) : errors[j].index # index
    ELSE 0

\* The warning for each of indices but the first, from the j-th on.
RECURSIVE WarnLaterIndices(_, _, _, _)
WarnLaterIndices(errors, address, indices, j) ==
    IF j > Len(indices) THEN errors
    ELSE IF j = 1 THEN WarnLaterIndices(errors, address, indices, j + 1)
    ELSE LET existing == Existing(errors, indices[j])
         IN  WarnLaterIndices(
                 IF existing # 0
                 THEN [errors EXCEPT ![existing].errors =
                          Append(@, DuplicateMessage(Len(indices)))]
                 ELSE Append(errors, ValidationError(indices[j], address,
                                                     <<DuplicateMessage(Len(indices))>>)),
                 address, indices, j + 1)

\* The warning for each of indices, from the j-th on.
RECURSIVE WarnIndices(_, _, _, _)
WarnIndices(errors, address, indices, j) ==
    IF j > Len(indices) THEN errors
    ELSE LET existing == Existing(errors, indices[j])
         IN  WarnIndices(
                 IF existing # 0
                 THEN [errors EXCEPT ![existing].errors =
                          Append(@, DuplicateMessage(Len(indices)))]
                 ELSE Append(errors, ValidationError(indices[j], address,
                                                     <<DuplicateMessage(Len(indices))>>)),
                 address, indices, j + 1)

\* The loop over address_counts.items(), from the k-th on.
RECURSIVE WarnDuplicates(_, _, _)
WarnDuplicates(errors, counts, k) ==
    IF k > Len(counts) THEN errors
    ELSE WarnDuplicates(
             IF Len(counts[k].indices) > 1
             THEN WarnIndices(errors, counts[k].address, counts[k].indices, 1)
             ELSE errors,
             counts, k + 1)

\* e put into the sorted list after the entries whose index is not greater.
Inserted(sorted, e) ==
    LET k == Cardinality({j \in 1 .. Len(sorted) : sorted[j].index <= e.index})
    IN  SubSeq(sorted, 1, k) \o <<e>> \o SubSeq(sorted, k + 1, Len(sorted))

\* errors as they are, not sorted.
NotSorted(errors) == errors

\* sorted(errors, key=lambda e: e.index), a stable sort.
RECURSIVE SortedByIndex(_)
SortedByIndex(errors) ==
    IF errors = <<>> THEN <<>>
    ELSE Inserted(SortedByIndex(SubSeq(errors, 1, Len(errors) - 1)), errors[Len(errors)])

\* What validate raises ("none" when it returns) and the list it returns.
Validated(raise, errors) == [raise |-> raise, errors |-> errors]

\* The size checks raising one code for both.
SizeErrorOneCode(size) ==
    IF size > MAX_BATCH_SIZE \/ size = 0 THEN BATCH_VALIDATION_FAILED ELSE "none"

\* The two checks of the batch size: what they raise ("none" for neither).
SizeError(size) ==
    IF size > MAX_BATCH_SIZE THEN BATCH_SIZE_EXCEEDED
    ELSE IF size = 0 THEN BATCH_VALIDATION_FAILED
    ELSE "none"

\* validate
Validate(recipients) ==
    IF SizeError(Len(recipients)) # "none"
    THEN Validated(SizeError(Len(recipients)), <<>>)
    ELSE Validated("none",
             SortedByIndex(WarnDuplicates(CheckRecipients(recipients, 1, <<>>),
                                          CountAddresses(recipients, 1, <<>>), 1)))

\* validate of each of the lists that are submitted, worked out once.
Validation == [recipients \in SubmitLists(MaxRecipients) |-> Validate(recipients)] @@ <<>>

\* ---------------------------------------------------------- links: strings
\* A string of the link module is a sequence of atoms.  An atom is one of
\* the characters the code tells apart (" ", "+", "&", "=", "#", "?", "%",
\* ",", the newline LF, a homoglyph) or a run of other characters ("0xab",
\* "100", "USDC").  A numeral is the atom ToString gives.

\* None, where a string or a list is optional.
None == <<"None">>

\* bool(s) for an optional string or list.
Truthy(s) == s # None /\ s # <<>>

\* "\n"
LF == "LF"

\* Characters of ALL_HOMOGLYPHS: Cyrillic a (U+0430) and Greek Omicron (U+039F).
ALL_HOMOGLYPHS == {"U+0430", "U+039F"}

\* Characters str.strip(), int() and float() take for whitespace.
Whitespace == {" ", LF}

\* The atoms that match 0x[a-fA-F0-9]{40}, [1-9A-HJ-NP-Za-km-z]{32,44} and
\* one of BITCOIN_PATTERNS.
EvmAtoms == {"0xab", "0xAB", "0xcd"}
SolanaAtoms == {"So1ana"}
BitcoinAtoms == {"bc1q"}

\* c.lower() and c.upper() of an atom.
LowerChar(c) ==
    CASE c = "0xAB" -> "0xab"
      [] c = "So1ana" -> "so1ana"
      [] OTHER -> c

UpperChar(c) ==
    CASE c = "0xab" -> "0xAB"
      [] c = "0xcd" -> "0xCD"
      [] c = "bc1q" -> "BC1Q"
      [] OTHER -> Upper(c)

\* s.lower() and s.upper()
LowerStr(s) == [i \in 1 .. Len(s) |-> LowerChar(s[i])]
UpperStr(s) == [i \in 1 .. Len(s) |-> UpperChar(s[i])]

\* How many characters an atom stands for: one, but for the long memo.
LongText == "x * 257"
AtomLength(c) == IF c = LongText THEN MAX_MEMO_LENGTH + 1 ELSE 1

\* len(s)
RECURSIVE StrLen(_)
StrLen(s) == IF s = <<>> THEN 0 ELSE AtomLength(Head(s)) + StrLen(Tail(s))

\* s.strip()
RECURSIVE Strip(_)
Strip(s) ==
    IF s = <<>> THEN s
    ELSE IF Head(s) \in Whitespace THEN Strip(Tail(s))
    ELSE IF s[Len(s)] \in Whitespace THEN Strip(SubSeq(s, 1, Len(s) - 1))
    ELSE s

\* Where c first occurs in s (0 when it does not).
Find(s, c) ==
    IF \E i \in 1 .. Len(s) : s[i] = c
    THEN CHOOSE i \in 1 .. Len(s) : s[i] = c /\ \A j \in 1 .. (i - 1) : s[j] # c
    ELSE 0

\* s.split(c)
RECURSIVE Split(_, _)
Split(s, c) ==
    LET at == Find(s, c)
    IN  IF at = 0 THEN <<s>>
        ELSE <<SubSeq(s, 1, at - 1)>> \o Split(SubSeq(s, at + 1, Len(s)), c)

\* c.join(parts)
RECURSIVE Join(_, _)
Join(parts, c) ==
    IF parts = <<>> THEN <<>>
    ELSE IF Len(parts) = 1 THEN parts[1]
    ELSE parts[1] \o <<c>> \o Join(Tail(parts), c)

\* ------------------------------------------------------- links: numbers
\* 60 * 60 * 1000, the milliseconds of an hour.
HOUR_MS == 60 * 60 * 1000

DEFAULT_EXPIRY_HOURS == 24
MAX_EXPIRY_HOURS == 168
DEFAULT_TOKEN == "USDC"
PAYMENT_LINK_BASE_URL == "https://app.protocolbanks.com/pay"

\* expiry_hours = None.
NoHours == -1

\* The instants (milliseconds) the clock of the model shows: a link of one
\* hour made at 0 expires at the second, a link of 24 hours at the third.
Instants ==
    {0, HOUR_MS, HOUR_MS + 1, DEFAULT_EXPIRY_HOURS * HOUR_MS + 1}

\* ----------------------------------------------------- webhooks: numbers
DEFAULT_TIMESTAMP_TOLERANCE == 300

\* The instants (seconds) the clock shows while webhooks are verified: one,
\* the last that is within the default tolerance of it, and the next.
HookEpoch == 4 * DEFAULT_TIMESTAMP_TOLERANCE
HookInstants ==
    {HookEpoch, HookEpoch + DEFAULT_TIMESTAMP_TOLERANCE,
     HookEpoch + DEFAULT_TIMESTAMP_TOLERANCE + 1}

\* The timestamp of "t=123,v1=invalid".
OldTimestamp == 123

\* The integers whose numerals occur: the instants, the expiries of links
\* made at an instant, what a forger writes (an hour more, a millisecond
\* less than the expiry of a link), and the timestamps of webhooks.
Numerals ==
    LET expiries == {t + h * HOUR_MS :
                        t \in Instants, h \in {1, DEFAULT_EXPIRY_HOURS, MAX_EXPIRY_HOURS}}
    IN  Instants \cup {1} \cup expiries \cup {e + HOUR_MS : e \in expiries}
            \cup {e - 1 : e \in expiries} \cup HookInstants \cup {OldTimestamp}

\* str(n)
Str(n) == <<ToString(n)>>

\* The digits of s when int(s) takes s for an integer: whitespace around it
\* and zeros before it are dropped.
RECURSIVE Digits(_)
Digits(s) ==
    LET t == Strip(s)
    IN  IF Len(t) > 1 /\ Head(t) = "0" THEN Digits(Tail(t)) ELSE t

\* int(s) raises ValueError.
IsInt(s) == \E n \in Numerals : Digits(s) = Str(n)

\* int(s)
IntOf(s) == CHOOSE n \in Numerals : Digits(s) = Str(n)

\* float(c) of the atoms that are numbers.
FloatOf(c) ==
    CASE c = "0" -> ZeroAmount
      [] c = "0.01" -> MIN_AMOUNT
      [] c = "100" -> Amount(100, 0)
      [] c = "100.0" -> Amount(100, 0)
      [] c = "200" -> Amount(200, 0)
      [] c = "1000000000" -> MAX_AMOUNT
      [] c = "1000000000.01" -> OverMaxAmount

\* float(s) raises ValueError; float(s) is nan.
IsNan(s) == Strip(s) = <<"nan">>
IsFloat(s) ==
    \/ IsNan(s)
    \/ /\ Len(Strip(s)) = 1
       /\ Strip(s)[1] \in {"0", "0.01", "100", "100.0", "200", "1000000000", "1000000000.01"}

\* ------------------------------------------------- links: error codes
LINK_INVALID_ADDRESS == "PB_LINK_001"
LINK_INVALID_AMOUNT == "PB_LINK_002"
LINK_INVALID_TOKEN == "PB_LINK_003"
LINK_INVALID_CHAIN == "PB_LINK_004"
LINK_HOMOGLYPH_DETECTED == "PB_LINK_007"
LINK_INVALID_EXPIRY == "PB_LINK_008"

\* ------------------------------------------------- links: validation
\* A chain id: "#1" is the integer 1, "1" the string.  str() and int() of
\* the chain ids that occur.
SUPPORTED_CHAIN_IDS == {"#1", "#137", "#8453", "#42161", "#10", "#56", "solana", "bitcoin"}
NoChain == "None"

ChainStr(chain) ==
    CASE chain = "#1" -> "1"
      [] chain = "#137" -> "137"
      [] chain = "#5" -> "5"
      [] OTHER -> chain

\* int(c) for a chain in a URL, and c itself when int raises ValueError.
ChainOf(c) ==
    CASE c = "1" -> "#1"
      [] c = "137" -> "#137"
      [] c = "5" -> "#5"
      [] OTHER -> c

\* The search for homoglyphs that finds none.
ContainsNoHomoglyphs(s) == FALSE

\* detect_homoglyphs(s) is not None
ContainsHomoglyphs(s) == \E i \in 1 .. Len(s) : s[i] \in ALL_HOMOGLYPHS

\* pattern.match(s) for a pattern ^...$ whose body the atoms of bodies
\* match: $ also matches before a newline that ends the string.
Matches(s, bodies) ==
    /\ Len(s) \in {1, 2}
    /\ s[1] \in bodies
    /\ Len(s) = 2 => s[2] = LF

\* validation.is_valid_address, with a chain
IsValidAddressOn(address, chain_id) ==
    /\ ~ContainsHomoglyphs(address)
    /\ IF chain_id = "solana" THEN Matches(address, SolanaAtoms)
       ELSE IF chain_id = "bitcoin" THEN Matches(address, BitcoinAtoms)
       ELSE Matches(address, EvmAtoms)

\* validate_address: what it raises ("none" when it returns).
ValidateAddress(address, chain_id) ==
    IF ContainsHomoglyphs(address) THEN LINK_HOMOGLYPH_DETECTED
    ELSE IF ~IsValidAddressOn(address, chain_id) THEN LINK_INVALID_ADDRESS
    ELSE "none"

\* validate_amount: nan passes every comparison.
ValidateAmount(amount) ==
    IF ~IsFloat(amount) THEN LINK_INVALID_AMOUNT
    ELSE IF IsNan(amount) THEN "none"
    ELSE LET num == FloatOf(Strip(amount)[1])
         IN  IF AtMost(num, ZeroAmount) THEN LINK_INVALID_AMOUNT
             ELSE IF ~AtMost(MIN_AMOUNT, num) THEN LINK_INVALID_AMOUNT
             ELSE IF ~AtMost(num, MAX_AMOUNT) THEN LINK_INVALID_AMOUNT
             ELSE "none"

\* validate_token
ValidateToken(token) ==
    IF UpperStr(token) \in {<<t>> : t \in SUPPORTED_TOKENS} THEN "none"
    ELSE LINK_INVALID_TOKEN

\* validate_chain_id
ValidateChainId(chain_id) ==
    IF chain_id \in SUPPORTED_CHAIN_IDS THEN "none" ELSE LINK_INVALID_CHAIN

\* validate_expiry_hours
ValidateExpiryHours(hours) ==
    IF hours >= 1 /\ hours <= MAX_EXPIRY_HOURS THEN "none" ELSE LINK_INVALID_EXPIRY

\* validate_memo
ValidateMemo(memo) ==
    IF StrLen(memo) <= MAX_MEMO_LENGTH THEN "none" ELSE VALID_OUT_OF_RANGE

\* The first of the codes that is raised ("none" when none is).
RECURSIVE FirstRaised(_)
FirstRaised(codes) ==
    IF codes = <<>> THEN "none"
    ELSE IF Head(codes) # "none" THEN Head(codes)
    ELSE FirstRaised(Tail(codes))

\* A PaymentLinkParams (without webhook_url and metadata, which reach no URL).
PaymentLinkParams(to, amount, token, chain, expiry_hours, memo, order_id, callback_url,
                  allowed_chains, allowed_tokens) ==
    [to |-> to, amount |-> amount, token |-> token, chain |-> chain,
     expiry_hours |-> expiry_hours, memo |-> memo, order_id |-> order_id,
     callback_url |-> callback_url, allowed_chains |-> allowed_chains,
     allowed_tokens |-> allowed_tokens]

\* _validate_params
ValidateLinkParams(params) ==
    FirstRaised(<<
        ValidateAddress(params.to, params.chain),
        ValidateAmount(params.amount),
        IF Truthy(params.token) THEN ValidateToken(params.token) ELSE "none",
        IF params.chain # NoChain THEN ValidateChainId(params.chain) ELSE "none",
        IF params.expiry_hours # NoHours THEN ValidateExpiryHours(params.expiry_hours)
        ELSE "none",
        IF Truthy(params.memo) THEN ValidateMemo(params.memo) ELSE "none",
        IF Truthy(params.allowed_chains)
        THEN FirstRaised([i \in 1 .. Len(params.allowed_chains) |->
                             ValidateChainId(params.allowed_chains[i])])
        ELSE "none",
        IF Truthy(params.allowed_tokens)
        THEN FirstRaised([i \in 1 .. Len(params.allowed_tokens) |->
                             ValidateToken(<<params.allowed_tokens[i]>>)])
        ELSE "none" >>)

\* pydantic takes the fields for a PaymentLinkParams: token and
\* allowed_tokens are of TokenSymbol, chain and allowed_chains of ChainId.
IsPaymentLinkParams(params) ==
    /\ params.to # None /\ params.amount # None
    /\ params.token = None \/ params.token \in {<<t>> : t \in SUPPORTED_TOKENS}
    /\ params.chain = NoChain \/ params.chain \in SUPPORTED_CHAIN_IDS
    /\ params.allowed_chains = None
         \/ \A i \in 1 .. Len(params.allowed_chains) :
               params.allowed_chains[i] \in SUPPORTED_CHAIN_IDS
    /\ params.allowed_tokens = None
         \/ \A i \in 1 .. Len(params.allowed_tokens) :
               params.allowed_tokens[i] \in SUPPORTED_TOKENS

\* ------------------------------------------------- links: signature
\* hashlib.sha256(s.encode()).hexdigest()[:16] and the first 16 digits of
\* an HMAC-SHA256: one atom for each string hashed (and secret), taken to
\* differ whenever the strings differ.
SimpleHash(s) == <<"sha256" \o ToString(s)>>
HmacSignShort(data, secret) == <<"hmac" \o ToString(<<data, secret>>)>>

\* k1 < k2, for the keys of normalized.
KeyRank == [amount |-> 1, expiry |-> 2, memo |-> 3, to |-> 4, token |-> 5]

\* item put into the sorted list of items, by its key.
InsertedItem(sorted, item) ==
    LET k == Cardinality({j \in 1 .. Len(sorted) :
                             KeyRank[sorted[j][1]] <= KeyRank[item[1]]})
    IN  SubSeq(sorted, 1, k) \o <<item>> \o SubSeq(sorted, k + 1, Len(sorted))

\* The items in the order they have.
ItemsAsGiven(items) == items

\* sorted(normalized.items())
RECURSIVE SortedItems(_)
SortedItems(items) ==
    IF items = <<>> THEN <<>>
    ELSE InsertedItem(SortedItems(SubSeq(items, 1, Len(items) - 1)), items[Len(items)])

\* normalized with no amount in it.
NormalizedAmountLeftOut(to, amount, token, expiry, memo) ==
    << <<"amount", <<>> >>,
       <<"expiry", Str(expiry)>>,
       <<"memo", IF Truthy(memo) THEN memo ELSE <<>> >>,
       <<"to", LowerStr(to)>>,
       <<"token", UpperStr(token)>> >>

\* normalized, as the dict literal lists it.
Normalized(to, amount, token, expiry, memo) ==
    << <<"amount", amount>>,
       <<"expiry", Str(expiry)>>,
       <<"memo", IF Truthy(memo) THEN memo ELSE <<>> >>,
       <<"to", LowerStr(to)>>,
       <<"token", UpperStr(token)>> >>

\* "&".join(f"{k}={v}" for k, v in sorted(items))
DataToSign(items) ==
    LET sorted == SortedItems(items)
    IN  Join([i \in 1 .. Len(sorted) |-> <<sorted[i][1], "=">> \o sorted[i][2]], "&")

\* PaymentLinkModule._generate_signature, with the module's secret
GenerateSignature(secret, to, amount, token, expiry, memo) ==
    SimpleHash(DataToSign(Normalized(to, amount, token, expiry, memo)) \o secret)

\* crypto.generate_payment_link_signature
GeneratePaymentLinkSignature(to, amount, token, expiry, secret, memo) ==
    HmacSignShort(DataToSign(Normalized(to, amount, token, expiry, memo)), secret)

\* ------------------------------------------------------- links: URLs
\* A character written as it is.
NotQuoted(c) == c

\* quote_plus of a character, and unquote_plus of what stands for one.
QuoteChar(c) ==
    CASE c = " " -> "+"
      [] c = "+" -> "%2B"
      [] c = "&" -> "%26"
      [] c = "=" -> "%3D"
      [] c = "#" -> "%23"
      [] c = "?" -> "%3F"
      [] c = "%" -> "%25"
      [] c = "," -> "%2C"
      [] c = LF -> "%0A"
      [] OTHER -> c

UnquoteChar(c) ==
    CASE c = "+" -> " "
      [] c = "%2B" -> "+"
      [] c = "%26" -> "&"
      [] c = "%3D" -> "="
      [] c = "%23" -> "#"
      [] c = "%3F" -> "?"
      [] c = "%25" -> "%"
      [] c = "%2C" -> ","
      [] c = "%0A" -> LF
      [] OTHER -> c

QuotePlus(s) == [i \in 1 .. Len(s) |-> QuoteChar(s[i])]
UnquotePlus(s) == [i \in 1 .. Len(s) |-> UnquoteChar(s[i])]

\* urlencode(query_params), query_params a dict of strings in its order
UrlEncode(query_params) ==
    Join([i \in 1 .. Len(query_params) |->
             QuotePlus(<<query_params[i][1]>>) \o <<"=">> \o QuotePlus(query_params[i][2])],
         "&")

\* The optional entries of query_params, in the order _build_url adds them.
OptionalParams(params) ==
    (IF params.chain # NoChain THEN << <<"chain", <<ChainStr(params.chain)>> >> >> ELSE <<>>)
    \o (IF Truthy(params.memo) THEN << <<"memo", params.memo>> >> ELSE <<>>)
    \o (IF Truthy(params.order_id) THEN << <<"orderId", params.order_id>> >> ELSE <<>>)
    \o (IF Truthy(params.callback_url) THEN << <<"callback", params.callback_url>> >>
        ELSE <<>>)
    \o (IF Truthy(params.allowed_chains)
        THEN << <<"chains", Join([i \in 1 .. Len(params.allowed_chains) |->
                                     <<ChainStr(params.allowed_chains[i])>>], ",")>> >>
        ELSE <<>>)
    \o (IF Truthy(params.allowed_tokens)
        THEN << <<"tokens", Join([i \in 1 .. Len(params.allowed_tokens) |->
                                     <<params.allowed_tokens[i]>>], ",")>> >>
        ELSE <<>>)

\* _build_url
BuildUrl(base_url, params, token, expiry, signature, payment_id) ==
    <<base_url, "?">>
    \o UrlEncode(<< <<"to", params.to>>, <<"amount", params.amount>>, <<"token", token>>,
                    <<"exp", Str(expiry)>>, <<"sig", signature>>, <<"id", payment_id>> >>
                 \o OptionalParams(params))

\* urlparse(url).query: what stands between the first "?" and the "#".
UrlQuery(url) ==
    LET hash == Find(url, "#")
        front == IF hash = 0 THEN url ELSE SubSeq(url, 1, hash - 1)
        mark == Find(front, "?")
    IN  IF mark = 0 THEN <<>> ELSE SubSeq(front, mark + 1, Len(front))

\* parse_qs(query) as the list of its (name, value) pairs: a pair without
\* "=" or with a blank value is left out.
RECURSIVE PairsOf(_)
PairsOf(pieces) ==
    IF pieces = <<>> THEN <<>>
    ELSE LET nv == Head(pieces)
             eq == Find(nv, "=")
         IN  IF eq = 0 \/ eq = Len(nv) THEN PairsOf(Tail(pieces))
             ELSE << <<UnquotePlus(SubSeq(nv, 1, eq - 1)),
                       UnquotePlus(SubSeq(nv, eq + 1, Len(nv)))>> >>
                  \o PairsOf(Tail(pieces))

ParseQs(query) == PairsOf(Split(query, "&"))

\* query.get(name, [default])[0]
QueryGet(query, name, default) ==
    IF \E i \in 1 .. Len(query) : query[i][1] = <<name>>
    THEN query[CHOOSE i \in 1 .. Len(query) :
                  /\ query[i][1] = <<name>>
                  /\ \A j \in 1 .. (i - 1) : query[j][1] # <<name>>][2]
    ELSE default

\* What _parse_url does: it raises, or returns None (ok = FALSE), or returns
\* params, signature, expiry.
Parsed(raise, ok, params, signature, expiry) ==
    [raise |-> raise, ok |-> ok, params |-> params, signature |-> signature,
     expiry |-> expiry]

NotParsed == Parsed("none", FALSE, <<>>, <<>>, 0)

ParseRaised(exception) == Parsed(exception, FALSE, <<>>, <<>>, 0)

\* urlparse(url) raises ValueError: a bracket of an IPv6 host is not closed.
UrlParseRaises(url) == url # <<>> /\ url[1] = "http://[::1"

\* The test of the required fields that does not ask for sig.
SigNotRequired(to, amount, signature, expiry_str) ==
    ~Truthy(to) \/ ~Truthy(amount) \/ ~Truthy(expiry_str)

\* not to or not amount or not signature or not expiry_str
RequiredMissing(to, amount, signature, expiry_str) ==
    ~Truthy(to) \/ ~Truthy(amount) \/ ~Truthy(signature) \/ ~Truthy(expiry_str)

\* max(a, b)
Max(a, b) == IF a >= b THEN a ELSE b

\* int(chain_str), or chain_str when int raises ValueError, as a chain
ChainOfStr(chain_str) == IF Len(chain_str) = 1 THEN ChainOf(chain_str[1]) ELSE "other"

\* allowed_chains, of the parts of chains_str.split(",")
ChainList(parts) == [i \in 1 .. Len(parts) |-> ChainOfStr(parts[i])]

\* allowed_tokens = tokens_str.split(","), as tokens
TokenList(parts) == [i \in 1 .. Len(parts) |-> IF Len(parts[i]) = 1 THEN parts[i][1] ELSE "other"]

\* The end of the try of _parse_url: PaymentLinkParams(...) of the fields
\* read, and the return.
ParseReturn(params, signature, expiry) ==
    IF ~IsPaymentLinkParams(params) THEN ParseRaised(ModelError)
    ELSE Parsed("none", TRUE, params, signature, expiry)

\* The try of _parse_url from expiry = int(expiry_str) on, at the instant
\* now_ms.
ParseExpiry(expiry, now_ms, to, amount, signature, token, chain_str, memo, order_id, callback_url, chains_str, tokens_str) ==
    ParseReturn(
        PaymentLinkParams(
            to, amount, token,
            IF Truthy(chain_str) THEN ChainOfStr(chain_str) ELSE NoChain,
            Max(1, (expiry - now_ms) \div HOUR_MS),
            memo, order_id, callback_url,
            IF Truthy(chains_str) THEN ChainList(Split(chains_str, ",")) ELSE None,
            IF Truthy(tokens_str) THEN TokenList(Split(tokens_str, ",")) ELSE None),
        signature, expiry)

\* The try of _parse_url once the fields of the query are read.
ParseFields(url, now_ms, to, amount, signature, expiry_str, token, chain_str, memo, order_id, callback_url, chains_str, tokens_str) ==
    IF UrlParseRaises(url) THEN ParseRaised("ValueError")
    ELSE IF RequiredMissing(to, amount, signature, expiry_str) THEN NotParsed
    ELSE IF ~IsInt(expiry_str) THEN ParseRaised("ValueError")
    ELSE ParseExpiry(IntOf(expiry_str), now_ms, to, amount, signature, token, chain_str,
                     memo, order_id, callback_url, chains_str, tokens_str)

\* The try of _parse_url once query = parse_qs(parsed.query) is made.
ParseQuery(url, now_ms, query) ==
    ParseFields(url, now_ms,
                QueryGet(query, "to", None),
                QueryGet(query, "amount", None),
                QueryGet(query, "sig", None),
                QueryGet(query, "exp", None),
                QueryGet(query, "token", <<DEFAULT_TOKEN>>),
                QueryGet(query, "chain", None),
                QueryGet(query, "memo", None),
                QueryGet(query, "orderId", None),
                QueryGet(query, "callback", None),
                QueryGet(query, "chains", None),
                QueryGet(query, "tokens", None))

\* The try of _parse_url, at the instant now_ms
ParseUrlTry(url, now_ms) == ParseQuery(url, now_ms, ParseQs(UrlQuery(url)))

\* except Exception: return None
ParseExcept(tried) == IF tried.raise # "none" THEN NotParsed ELSE tried

\* _parse_url, at the instant now_ms
ParseUrl(url, now_ms) == ParseExcept(ParseUrlTry(url, now_ms))

\* validation.is_expired, at the instant now_ms
IsLinkExpired(expiry_timestamp, now_ms) == now_ms > expiry_timestamp

\* A LinkVerificationResult (of params, whether it has them).
LinkVerificationResult(valid, expired, tampered_fields, has_params, error,
                       homoglyph_detected) ==
    [valid |-> valid, expired |-> expired, tampered_fields |-> tampered_fields,
     has_params |-> has_params, error |-> error, homoglyph_detected |-> homoglyph_detected]

\* expected_signature made of order_id as well.
ExpectedSignatureWithOrderId(secret, params, expiry) ==
    SimpleHash(DataToSign(Normalized(params.to, params.amount,
                                     IF Truthy(params.token) THEN params.token
                                     ELSE <<DEFAULT_TOKEN>>,
                                     expiry, params.memo))
               \o (IF Truthy(params.order_id) THEN params.order_id ELSE <<>>)
               \o secret)

\* expected_signature of verify
ExpectedSignature(secret, params, expiry) ==
    GenerateSignature(secret, params.to, params.amount,
                      IF Truthy(params.token) THEN params.token ELSE <<DEFAULT_TOKEN>>,
                      expiry, params.memo)

\* The homoglyph check of verify that finds nothing.
HomoglyphsNeverFound(to) == FALSE

\* homoglyph_details of verify is not None
HomoglyphsFound(to) == ContainsHomoglyphs(to)

\* What verify does: it raises, or returns result.
Verified(raise, result) == [raise |-> raise, result |-> result]

\* The end of the try of verify: the result made of expired and
\* signature_valid.
VerifyReturn(expired, signature_valid) ==
    Verified("none",
        LinkVerificationResult(
            signature_valid /\ ~expired, expired,
            IF signature_valid THEN <<>> ELSE <<"signature">>, TRUE,
            IF expired THEN "Payment link has expired"
            ELSE IF ~signature_valid THEN "Payment link signature is invalid"
            ELSE "none",
            FALSE))

\* The try of verify once parsed = self._parse_url(url) is made.
VerifyParsed(secret, parsed, now_ms) ==
    IF ~parsed.ok
    THEN Verified("none",
             LinkVerificationResult(FALSE, FALSE, <<>>, FALSE,
                                    "Invalid payment link URL format", FALSE))
    ELSE IF HomoglyphsFound(parsed.params.to)
    THEN Verified("none",
             LinkVerificationResult(FALSE, FALSE, <<"to">>, TRUE,
                                    "Homoglyph attack detected in address", TRUE))
    ELSE VerifyReturn(IsLinkExpired(parsed.expiry, now_ms),
                      parsed.signature
                        = ExpectedSignature(secret, parsed.params, parsed.expiry))

\* The try of verify, at the instant now_ms.
VerifyTry(secret, url, now_ms) == VerifyParsed(secret, ParseUrl(url, now_ms), now_ms)

\* except Exception as e: the result has str(e) for its error.
VerifyExcept(tried) ==
    IF tried.raise # "none"
    THEN Verified("none",
             LinkVerificationResult(FALSE, FALSE, <<>>, FALSE, tried.raise, FALSE))
    ELSE tried

\* verify with its except clause.
VerifyCall(secret, url, now_ms) == VerifyExcept(VerifyTry(secret, url, now_ms))

\* PaymentLinkModule.verify, at the instant now_ms: what it returns.
Verify(secret, url, now_ms) == VerifyCall(secret, url, now_ms).result

\* What generate raises ("none" when it returns) and the PaymentLink.
Generated(raise, url, signature, expiry_ms, created_ms, token, expiry_hours) ==
    [raise |-> raise, url |-> url, signature |-> signature, expiry_ms |-> expiry_ms,
     created_ms |-> created_ms, token |-> token, expiry_hours |-> expiry_hours]

\* PaymentLinkModule.generate of a dict, at the instant now_ms; payment_id
\* is what generate_uuid gives.  PaymentLinkParams(**params) comes first,
\* and again for the link that is returned.
Generate(secret, base_url, params, now_ms, payment_id) ==
    LET token == IF Truthy(params.token) THEN params.token ELSE <<DEFAULT_TOKEN>>
        expiry_hours == IF params.expiry_hours = NoHours \/ params.expiry_hours = 0
                        THEN DEFAULT_EXPIRY_HOURS ELSE params.expiry_hours
        expiry_ms == now_ms + expiry_hours * HOUR_MS
        signature == GenerateSignature(secret, params.to, params.amount, token, expiry_ms,
                                       params.memo)
        url == BuildUrl(base_url, params, token, expiry_ms, signature, payment_id)
        raised == ValidateLinkParams(params)
    IN  IF ~IsPaymentLinkParams(params)
        THEN Generated(ModelError, <<>>, <<>>, 0, now_ms, <<>>, 0)
        ELSE IF raised # "none"
        THEN Generated(raised, <<>>, <<>>, 0, now_ms, <<>>, 0)
        ELSE IF ~IsPaymentLinkParams([params EXCEPT !.token = token])
        THEN Generated(ModelError, <<>>, <<>>, 0, now_ms, <<>>, 0)
        ELSE Generated("none", url, signature, expiry_ms, now_ms, token, expiry_hours)

\* ------------------------------------------------------- links: inputs
\* The api_secret the module is made with, and what generate_uuid gives.
LinkSecret == <<"sk_test">>
PaymentIds == {<<"pay_1">>, <<"pay_2">>}

\* An address with a Cyrillic a in it.
HomoglyphAddress == <<"0x", "U+0430", "b">>

\* Texts with the characters a query string gives a meaning to.
InvoiceMemo == <<"Invoice", " ", "#", "12345">>
MarksMemo == <<"a", "&", "to", "=", "0xcd", "+", "%", "?", ",", LF>>
CallbackUrl == <<"https://shop.example/cb", "?", "a", "=", "1", "&", "b", "=", "2">>

\* The parameters of test_generate_link_default_token but for expiry_hours.
BaseParams ==
    PaymentLinkParams(<<"0xab">>, <<"100">>, <<"USDC">>, NoChain, DEFAULT_EXPIRY_HOURS,
                      None, None, None, None, None)

\* The parameter sets given to generate: some it accepts ...
GoodParams ==
    {BaseParams,
     [BaseParams EXCEPT !.to = <<"0xAB">>],
     [BaseParams EXCEPT !.to = <<"0xab", LF>>],
     [BaseParams EXCEPT !.token = None, !.expiry_hours = NoHours],
     [BaseParams EXCEPT !.token = <<"DAI">>, !.expiry_hours = 1],
     [BaseParams EXCEPT !.expiry_hours = MAX_EXPIRY_HOURS, !.memo = <<>>],
     [BaseParams EXCEPT !.memo = InvoiceMemo, !.expiry_hours = 1],
     [BaseParams EXCEPT !.memo = MarksMemo, !.order_id = <<"order", " ", "1">>,
                        !.callback_url = CallbackUrl],
     [BaseParams EXCEPT !.chain = "#137", !.allowed_chains = <<"#1", "#137", "solana">>,
                        !.allowed_tokens = <<"USDC", "DAI">>],
     [BaseParams EXCEPT !.to = <<"So1ana">>, !.chain = "solana"],
     [BaseParams EXCEPT !.amount = <<"0.01">>],
     [BaseParams EXCEPT !.amount = <<"1000000000">>, !.expiry_hours = 1],
     [BaseParams EXCEPT !.amount = <<" ", "100", LF>>],
     [BaseParams EXCEPT !.amount = <<"nan">>]}

\* ... and some it does not.
BadParams ==
    {[BaseParams EXCEPT !.to = HomoglyphAddress],
     [BaseParams EXCEPT !.to = <<"invalid">>],
     [BaseParams EXCEPT !.to = <<"0xab">>, !.chain = "solana"],
     [BaseParams EXCEPT !.amount = <<"0">>],
     [BaseParams EXCEPT !.amount = <<"1000000000.01">>],
     [BaseParams EXCEPT !.amount = <<"abc">>],
     [BaseParams EXCEPT !.token = <<"usdc">>],
     [BaseParams EXCEPT !.token = <<"XYZ">>],
     [BaseParams EXCEPT !.chain = "#5"],
     [BaseParams EXCEPT !.expiry_hours = 0],
     [BaseParams EXCEPT !.expiry_hours = MAX_EXPIRY_HOURS + 1],
     [BaseParams EXCEPT !.memo = <<LongText>>]}

LinkParams == GoodParams \cup BadParams

\* url with the value of its query field name replaced by value, written as
\* urlencode writes it.
Replaced(url, name, value) ==
    LET pieces == Split(UrlQuery(url), "&")
    IN  <<url[1], "?">>
        \o Join([i \in 1 .. Len(pieces) |->
                    IF Len(pieces[i]) >= 2 /\ pieces[i][1] = name /\ pieces[i][2] = "="
                    THEN <<name, "=">> \o QuotePlus(value)
                    ELSE pieces[i]],
                "&")

\* url without its query field name.
Removed(url, name) ==
    LET pieces == Split(UrlQuery(url), "&")
    IN  <<url[1], "?">>
        \o Join(SelectSeq(pieces, LAMBDA piece : ~(Len(piece) >= 2 /\ piece[1] = name)), "&")

\* The value url has for name, as written.
Written(url, name) == QueryGet(ParseQs(UrlQuery(url)), name, None)

\* What a change of a link is: the field, and the value put for it (None
\* when the field is removed).
Change(field, value) == [field |-> field, value |-> value]

NoChange == Change("none", None)

\* The changes made to a link that expires at expiry.
Changes(expiry) ==
    {Change("amount", v) : v \in {<<"200">>, <<"100">>, <<"100.0">>, <<"0.01">>, <<>>, None}}
    \cup {Change("exp", v) :
            v \in {Str(expiry + HOUR_MS), Str(expiry - 1), Str(1),
                   <<"0">> \o Str(expiry), <<" ">> \o Str(expiry) \o <<LF>>,
                   <<"abc">>, <<>>, None}}
    \cup {Change("sig", v) : v \in {<<"forged">>, <<>>, None}}
    \cup {Change("to", v) : v \in {<<"0xAB">>, <<"0xcd">>, HomoglyphAddress, None}}
    \cup {Change("token", v) : v \in {<<"usdc">>, <<"DAI">>, <<"XYZ">>, None}}

\* A URL written by hand: the required fields and the token, exp and sig as
\* given, and more of a query string after them.
Crafted(to, amount, token, exp, sig, more) ==
    <<PAYMENT_LINK_BASE_URL, "?">>
    \o UrlEncode(<< <<"to", to>>, <<"amount", amount>>, <<"token", token>>,
                    <<"exp", exp>>, <<"sig", sig>> >>)
    \o more

\* When the URLs written by hand expire.
CraftedExpiry == DEFAULT_EXPIRY_HOURS * HOUR_MS

\* The signature that the module would give a URL written by hand.
CraftedSignature(to) ==
    GenerateSignature(LinkSecret, to, <<"100">>, <<"USDC">>, CraftedExpiry, None)

\* The URLs given to verify that generate has not made.
CraftedUrls ==
    {<<"not-a-url">>,
     <<>>,
     <<PAYMENT_LINK_BASE_URL, "?">>,
     <<"http://[::1">>,
     <<PAYMENT_LINK_BASE_URL, "#", "top", "?">>
        \o UrlEncode(<< <<"to", <<"0xab">> >>, <<"amount", <<"100">> >>,
                        <<"exp", Str(CraftedExpiry)>>, <<"sig", CraftedSignature(<<"0xab">>)>> >>),
     Crafted(<<"0xab">>, <<"100">>, <<"USDC">>, Str(CraftedExpiry),
             CraftedSignature(<<"0xab">>), <<>>),
     Crafted(<<"0xab">>, <<"100">>, <<"USDC">>, Str(CraftedExpiry),
             CraftedSignature(<<"0xab">>), <<"&", "chain", "=", "5">>),
     Crafted(<<"0xab">>, <<"100">>, <<"USDC">>, Str(CraftedExpiry),
             CraftedSignature(<<"0xab">>), <<"&", "to", "=", "0x", "U+0430", "b">>),
     Crafted(<<>>, <<"100">>, <<"USDC">>, Str(CraftedExpiry),
             CraftedSignature(<<"0xab">>), <<"&", "to", "=", "0xab">>),
     Crafted(HomoglyphAddress, <<"100">>, <<"USDC">>, Str(CraftedExpiry),
             CraftedSignature(HomoglyphAddress), <<>>),
     Crafted(HomoglyphAddress, <<"100">>, <<"USDC">>, Str(CraftedExpiry), <<"forged">>, <<>>),
     Crafted(HomoglyphAddress, <<"100">>, <<"USDC">>, Str(CraftedExpiry), <<>>, <<>>),
     Crafted(HomoglyphAddress, <<"100">>, <<"USDC">>, <<"abc">>,
             CraftedSignature(HomoglyphAddress), <<>>),
     Crafted(HomoglyphAddress, <<"100">>, <<"XYZ">>, Str(CraftedExpiry),
             CraftedSignature(HomoglyphAddress), <<>>),
     Crafted(HomoglyphAddress, <<>>, <<"USDC">>, Str(CraftedExpiry),
             CraftedSignature(HomoglyphAddress), <<>>)}

\* What generate returns when it has made no link, and what verify returns
\* when it was not called.
NoLink == Generated("none", <<>>, <<>>, 0, 0, <<>>, 0)
NoResult == LinkVerificationResult(FALSE, FALSE, <<>>, FALSE, "none", FALSE)

\* The URL the caller holds: from generate ("generated", with the link and
\* the parameters it was made of), from generate and then changed
\* ("changed", with the change), or written by hand ("crafted").
Held(url, origin, change, link, params) ==
    [url |-> url, origin |-> origin, change |-> change, link |-> link, params |-> params]

\* What a step of the link module did: the operation, the instant, what was
\* given to it, what it raised and what it returned.
LinkReport(op, at, params, url, raise, link, result) ==
    [op |-> op, at |-> at, params |-> params, url |-> url, raise |-> raise, link |-> link,
     result |-> result]

InitLinks ==
    /\ clock = 0
    /\ holding = Held(<<>>, "none", NoChange, NoLink, BaseParams)
    /\ res = LinkReport("init", 0, BaseParams, <<>>, "none", NoLink, NoResult)

\* -------------------------------------------------------------------- Init
Init ==
    /\ now = 0
    /\ ticks = 0
    /\ store = <<>>
    /\ orphans = <<>>
    /\ used = {}
    /\ calls = EmptyBag
    /\ ret = Report("init", "none", "ok", "none", "none", "none", "none", 0)
    /\ batches = <<>>
    /\ polling_tasks = <<>>
    /\ tasks = <<>>
    /\ pending = <<>>
    /\ stops = 0
    /\ out = BatchReport("init", "none", <<>>, "ok", "none", "none", <<>>, "none", <<>>)
    /\ InitLinks

\* ----------------------------------------------------------------- actions
\* The clock advances.
Tick ==
    /\ ticks < MaxTicks
    /\ now' = now + TickSeconds
    /\ ticks' = ticks + 1
    /\ ret' = Report("tick", "none", "ok", "none", "none", "none", "none", 0)
    /\ UNCHANGED <<store, orphans, used, calls, bvars, lvars>>

\* The object coroutine c holds gets status (and signature) assigned.
Assign(c, status, signature) ==
    IF c.ref = Stored
    THEN /\ store' = [store EXCEPT ![c.id].status = status, ![c.id].signature = signature]
         /\ orphans' = Collect(orphans, calls')
    ELSE /\ orphans' = Collect([orphans EXCEPT ![c.ref].status = status,
                                               ![c.ref].signature = signature], calls')
         /\ UNCHANGED store

\* create_authorization up to its await: auth_id is the id generate_uuid gives.
CreateAuthorization(limit, auth_id, params) ==
    /\ BagCardinality(calls) < limit
    /\ IF ValidateParams(params) # "none"
       THEN /\ ret' = WithParams(Raised("create", "none", ValidateParams(params)), params)
            /\ UNCHANGED <<store, used, calls>>
       ELSE IF ~IsChainSupported(params.chain_id)
       THEN /\ ret' = WithParams(Raised("create", "none", X402_UNSUPPORTED_CHAIN), params)
            /\ UNCHANGED <<store, used, calls>>
       ELSE IF ~IsTokenSupported(params.chain_id, params.token)
               \/ ~HasTokenConfig(params.chain_id, params.token)
       THEN /\ ret' = WithParams(Raised("create", "none", X402_UNSUPPORTED_TOKEN), params)
            /\ UNCHANGED <<store, used, calls>>
       ELSE /\ auth_id \notin used
            /\ LET valid_after == now
                   valid_before == now + ValidFor(params)
               IN  store' = (auth_id :> Authorization("pending", valid_after,
                                                      valid_before, valid_before))
                                @@ store
            /\ used' = used \cup {auth_id}
            /\ calls' = Started(Call("create", auth_id, Stored, <<>>))
            /\ ret' = WithParams(Awaiting("create", auth_id, "POST /x402/authorizations"),
                                 params)
    /\ UNCHANGED <<now, ticks, orphans, bvars, lvars>>

\* The request without its try/except: a failure is raised to the caller.
BestEffortRaising(op, id, ok, status) ==
    IF ok THEN Returned(op, id, "ok", status)
    ELSE Report(op, id, "raise", TransportError, "none", "fail", "none", 0)

\* try: await self._http.post(...) except Exception: pass -- the call
\* returns whether the request succeeded (ok) or raised.
BestEffort(op, id, ok, status) == Returned(op, id, IF ok THEN "ok" ELSE "fail", status)

\* create_authorization from the answer of its registration on.
CreateAuthorizationReturn(c, ok) ==
    /\ c \in BagToSet(calls) /\ c.op = "create"
    /\ calls' = Finished(c)
    /\ orphans' = Collect(orphans, calls')
    /\ ret' = BestEffort("create", c.id, ok, Obj(c).status)
    /\ UNCHANGED <<now, ticks, store, used, bvars, lvars>>

\* The expired record evicted instead of marked.
MarkExpiredEvicting(s, auth_id) == [i \in DOMAIN s \ {auth_id} |-> s[i]]

\* auth.status = "expired", on the object stored under auth_id.
MarkExpired(s, auth_id) == [s EXCEPT ![auth_id].status = "expired"]

\* submit_signature up to its await.
SubmitSignature(limit, auth_id, signature) ==
    /\ BagCardinality(calls) < limit
    /\ IF auth_id \notin DOMAIN store
       THEN /\ ret' = WithSignature(Raised("submit", auth_id, X402_AUTHORIZATION_EXPIRED),
                                    signature)
            /\ UNCHANGED <<store, calls>>
       ELSE IF IsExpired(store[auth_id])
       THEN /\ store' = MarkExpired(store, auth_id)
            /\ ret' = WithSignature(Raised("submit", auth_id, X402_AUTHORIZATION_EXPIRED),
                                    signature)
            /\ UNCHANGED calls
       ELSE IF ~IsValidSignature(signature)
       THEN /\ ret' = WithSignature(Raised("submit", auth_id, X402_INVALID_SIGNATURE),
                                    signature)
            /\ UNCHANGED <<store, calls>>
       ELSE /\ store' = [store EXCEPT ![auth_id].status = "signed",
                                      ![auth_id].signature = <<signature>>]
            /\ calls' = Started(Call("submit", auth_id, Stored, <<signature>>))
            /\ ret' = WithSignature(Awaiting("submit", auth_id, "POST /x402/submit"),
                                    signature)
    /\ UNCHANGED <<now, ticks, orphans, used, bvars, lvars>>

\* The except branch without auth.status = "failed".
RelayStatusKeepsSigned(response) ==
    IF ~response.ok THEN "signed"
    ELSE IF response.status = "absent" THEN "submitted"
    ELSE response.status

\* The status submit_signature assigns when the relay has answered.
RelayStatus(response) ==
    IF ~response.ok THEN "failed"
    ELSE IF response.status = "absent" THEN "submitted"
    ELSE response.status

\* submit_signature from the relay's answer on.
SubmitSignatureReturn(c, response) ==
    /\ c \in BagToSet(calls) /\ c.op = "submit"
    /\ calls' = Finished(c)
    /\ Assign(c, RelayStatus(response), Obj(c).signature)
    /\ ret' = IF response.ok
              THEN Returned("submit", c.id, Answer(response), RelayStatus(response))
              ELSE Report("submit", c.id, "raise", TransportError, "none", "fail", "none", 0)
    /\ UNCHANGED <<now, ticks, used, bvars, lvars>>

\* The status get_status leaves on a cached record before it asks the backend.
EagerStatus(auth) ==
    IF IsExpired(auth) /\ auth.status = "pending" THEN "expired" ELSE auth.status

\* get_status up to its await (or to its return, for a cached final record).
GetStatus(limit, auth_id) ==
    /\ BagCardinality(calls) < limit
    /\ used' = used \cup {auth_id}
    /\ IF auth_id \in DOMAIN store
       THEN /\ store' = [store EXCEPT ![auth_id].status = EagerStatus(store[auth_id])]
            /\ IF IsFinalStatus(EagerStatus(store[auth_id]))
               THEN /\ ret' = Returned("get_status", auth_id, "none",
                                       EagerStatus(store[auth_id]))
                    /\ UNCHANGED calls
               ELSE /\ calls' = Started(Call("get_status", auth_id, Stored, <<>>))
                    /\ ret' = Awaiting("get_status", auth_id,
                                       "GET /x402/authorizations/{id}")
       ELSE /\ calls' = Started(Call("get_status", auth_id, NoRef, <<>>))
            /\ ret' = Awaiting("get_status", auth_id, "GET /x402/authorizations/{id}")
            /\ UNCHANGED store
    /\ UNCHANGED <<now, ticks, orphans, bvars, lvars>>

\* The status get_status assigns when the backend has answered.
RefreshedStatus(auth, response) ==
    IF response.ok /\ response.status # "absent" THEN response.status ELSE auth.status

\* get_status of a cached record, from the backend's answer on.
GetStatusReturn(c, response) ==
    /\ c \in BagToSet(calls) /\ c.op = "get_status" /\ c.ref # NoRef
    /\ calls' = Finished(c)
    /\ Assign(c, RefreshedStatus(Obj(c), response), Obj(c).signature)
    /\ ret' = Returned("get_status", c.id, Answer(response),
                       RefreshedStatus(Obj(c), response))
    /\ UNCHANGED <<now, ticks, used, bvars, lvars>>

\* get_status of an id that was not cached, from the backend's answer on:
\* the record the backend holds is cached; expires_at is its expiry.
GetStatusFetched(c, response, expires_at) ==
    /\ c \in BagToSet(calls) /\ c.op = "get_status" /\ c.ref = NoRef
    /\ IF ~response.ok
       THEN /\ ret' = Report("get_status", c.id, "raise", TransportError, "none",
                             "fail", "none", 0)
            /\ calls' = Finished(c)
            /\ UNCHANGED <<store, orphans>>
       ELSE IF response.status = "absent"
       THEN /\ ret' = Report("get_status", c.id, "raise", ModelError, "none",
                             "absent", "none", 0)
            /\ calls' = Finished(c)
            /\ UNCHANGED <<store, orphans>>
       ELSE LET st == IF c.id \in DOMAIN store
                      THEN Detach([calls |-> Finished(c), orphans |-> orphans,
                                   rec |-> store], c.id)
                      ELSE [calls |-> Finished(c), orphans |-> orphans, rec |-> store]
            IN  /\ store' = [i \in DOMAIN store \cup {c.id} |->
                                IF i = c.id
                                THEN Authorization(response.status,
                                                   expires_at - MIN_VALIDITY_SECONDS,
                                                   expires_at, expires_at)
                                ELSE store[i]]
                /\ calls' = st.calls
                /\ orphans' = st.orphans
                /\ ret' = Returned("get_status", c.id, Answer(response), response.status)
    /\ UNCHANGED <<now, ticks, used, bvars, lvars>>

\* The check of cancel for pending alone.
CanCancelPendingOnly(status) == status = "pending"

\* auth.status in ("pending", "signed")
CanCancel(status) == status \in {"pending", "signed"}

\* cancel up to its await.
Cancel(limit, auth_id) ==
    /\ BagCardinality(calls) < limit
    /\ IF auth_id \notin DOMAIN store
       THEN /\ ret' = Raised("cancel", auth_id, X402_AUTHORIZATION_EXPIRED)
            /\ UNCHANGED <<store, calls>>
       ELSE IF ~CanCancel(store[auth_id].status)
       THEN /\ ret' = Raised("cancel", auth_id, X402_AUTHORIZATION_EXPIRED)
            /\ UNCHANGED <<store, calls>>
       ELSE /\ store' = [store EXCEPT ![auth_id].status = "cancelled"]
            /\ calls' = Started(Call("cancel", auth_id, Stored, <<>>))
            /\ ret' = Awaiting("cancel", auth_id, "POST /x402/authorizations/{id}/cancel")
    /\ UNCHANGED <<now, ticks, orphans, used, bvars, lvars>>

\* cancel from the answer of its notification on.
CancelReturn(c, ok) ==
    /\ c \in BagToSet(calls) /\ c.op = "cancel"
    /\ calls' = Finished(c)
    /\ orphans' = Collect(orphans, calls')
    /\ ret' = BestEffort("cancel", c.id, ok, "none")
    /\ UNCHANGED <<now, ticks, store, used, bvars, lvars>>

\* cleanup_expired deleting only the records it marks expired.
ExpiredPendingIds == {i \in DOMAIN store : IsExpired(store[i]) /\ store[i].status = "pending"}

\* cleanup_expired: the ids it deletes.
ExpiredIds == {i \in DOMAIN store : IsExpired(store[i])}

\* cleanup_expired (synchronous).
CleanupExpired(limit) ==
    /\ BagCardinality(calls) < limit
    /\ LET marked == [i \in DOMAIN store |->
                        IF i \in ExpiredIds /\ store[i].status = "pending"
                        THEN [store[i] EXCEPT !.status = "expired"] ELSE store[i]]
           st == DetachAll([calls |-> calls, orphans |-> orphans, rec |-> marked],
                           ExpiredIds)
       IN  /\ store' = [i \in DOMAIN store \ ExpiredIds |-> store[i]]
           /\ calls' = st.calls
           /\ orphans' = st.orphans
           /\ ret' = Report("cleanup", "none", "ok", "none", "none", "none", "none",
                            Cardinality(ExpiredIds))
    /\ UNCHANGED <<now, ticks, used, bvars, lvars>>

\* The report of get_pending_authorizations, with the ids of the records it
\* returned.
WithIds(r, ids) == [f \in DOMAIN r \cup {"ids"} |-> IF f = "ids" THEN ids ELSE r[f]]

\* get_pending_authorizations: the ids of the records it returns.
PendingIds == {i \in DOMAIN store : store[i].status \in {"pending", "signed"}}

\* get_pending_authorizations (synchronous).
GetPendingAuthorizations(limit) ==
    /\ BagCardinality(calls) < limit
    /\ ret' = WithIds(Report("get_pending", "none", "ok", "none", "none", "none", "none",
                             Cardinality(PendingIds)),
                      PendingIds)
    /\ UNCHANGED <<now, ticks, store, orphans, used, calls, bvars, lvars>>

\* -------------------------------------------------------- batch: actions
\* The caller's suspended call.
Suspended(op, id, ref, arg, stage) ==
    <<[op |-> op, id |-> id, ref |-> ref, arg |-> arg, stage |-> stage]>>

\* The place, among the objects made for id, of the one in the dict (0 when
\* there is none).
LocalRef(bs, id) == IF id \in DOMAIN bs THEN Len(bs[id]) ELSE 0

\* A BatchSubmitResult.
BatchSubmitResult(batch_id, status, valid_count, invalid_count, errors) ==
    [batch_id |-> batch_id, status |-> status, valid_count |-> valid_count,
     invalid_count |-> invalid_count, errors |-> errors]

\* validate, as a call of its own, of the recipients the caller holds.
BatchValidate ==
    /\ pending = <<>>
    /\ out.op = "call"
    /\ LET v == Validate(out.arg)
       IN  out' = BatchReport("validate", "none", out.arg,
                              IF v.raise = "none" THEN "ok" ELSE "raise", v.raise,
                              "none", <<>>, "none", v.errors)
    /\ UNCHANGED <<xvars, lvars, batches, polling_tasks, tasks, pending, stops>>

\* not all("Duplicate" in err for err in e.errors)
IsCritical(e) == ~(\A k \in 1 .. Len(e.errors) : HasDuplicate(e.errors[k]))

\* submit up to its await: batch_id is the id generate_uuid gives.
BatchSubmit(batch_id, recipients) ==
    /\ pending = <<>>
    /\ LET v == Validation[recipients]
           critical_errors == SelectSeq(v.errors, IsCritical)
           n == Len(recipients)
       IN  IF v.raise # "none"
           THEN /\ out' = BatchReport("submit", "none", recipients, "raise", v.raise,
                                      "none", <<>>, "none", <<>>)
                /\ UNCHANGED <<batches, pending>>
           ELSE IF critical_errors # <<>>
           THEN /\ out' = BatchReport("submit", "none", recipients, "ok", "none",
                                      "none", <<>>, "none",
                                      BatchSubmitResult("", "failed",
                                          n - Len(critical_errors),
                                          Len(critical_errors), critical_errors))
                /\ UNCHANGED <<batches, pending>>
           ELSE /\ batch_id \notin DOMAIN batches
                /\ batches' =
                      (batch_id :>
                          <<BatchStatus("pending", BatchProgress(n, 0, 0, n),
                                        [i \in 1 .. n |-> BatchItemStatus(i - 1, "pending")])>>)
                      @@ batches
                /\ pending' = Suspended("submit", batch_id, 1, recipients, "post")
                /\ out' = BatchReport("submit", batch_id, recipients, "await", "none",
                                      "POST /batch/submit", <<>>, "none", <<>>)
    /\ UNCHANGED <<xvars, lvars, polling_tasks, tasks, stops>>

\* The except branch without batch_status.status = "failed".
SubmitStatusKeepsPending(response) ==
    IF ~response.ok THEN "pending"
    ELSE IF response.status = "absent" THEN "pending"
    ELSE response.status

\* The status submit assigns when the backend has answered.
SubmitStatus(response) ==
    IF ~response.ok THEN "failed"
    ELSE IF response.status = "absent" THEN "pending"
    ELSE response.status

\* submit from the backend's answer on.
BatchSubmitReturn(response) ==
    /\ pending # <<>> /\ pending[1].op = "submit"
    /\ LET c == pending[1]
       IN  /\ batches' = [batches EXCEPT ![c.id][c.ref].status = SubmitStatus(response)]
           /\ out' = IF response.ok
                     THEN BatchReport("submit", c.id, c.arg, "ok", "none", "none", <<>>,
                                      response.status, BatchSubmitResult(c.id, SubmitStatus(response),
                                                              Len(c.arg), 0, <<>>))
                     ELSE BatchReport("submit", c.id, c.arg, "raise", TransportError,
                                      "none", <<>>, "fail", <<>>)
    /\ pending' = <<>>
    /\ UNCHANGED <<xvars, lvars, polling_tasks, tasks, stops>>

\* What get_status leaves and gives: the objects, the error it raises
\* ("none" when it returns) and the BatchStatus it returns.
GetResult(bs, raise, value) == [batches |-> bs, raise |-> raise, value |-> value]

\* The except branch without the look at local_batch.
FallbackAlwaysRaises(bs, id, ref) == GetResult(bs, BATCH_NOT_FOUND, <<>>)

\* except Exception: the local batch if there is one, else BATCH_NOT_FOUND.
Fallback(bs, id, ref) ==
    IF ref # 0 THEN GetResult(bs, "none", bs[id][ref])
    ELSE GetResult(bs, BATCH_NOT_FOUND, <<>>)

\* get_status from the backend's answer on; ref is local_batch (0 for None).
Refreshed(bs, id, ref, response) ==
    IF ~response.ok THEN Fallback(bs, id, ref)
    ELSE IF ref # 0
    THEN LET local_batch == bs[id][ref]
             with_status ==
                 [local_batch EXCEPT
                     !.status = IF response.status = "absent" THEN @ ELSE response.status]
             with_all ==
                 [with_status EXCEPT
                     !.progress = response.progress[1],
                     !.items = IF response.items = <<>> THEN <<>> ELSE response.items[1]]
         IN  IF response.progress = <<>>
             THEN Fallback([bs EXCEPT ![id][ref] = with_status], id, ref)
             ELSE GetResult([bs EXCEPT ![id][ref] = with_all], "none", with_all)
    ELSE IF response.status = "absent" \/ response.progress = <<>> \/ response.items = <<>>
    THEN Fallback(bs, id, ref)
    ELSE LET batch_status ==
                 BatchStatus(response.status, response.progress[1], response.items[1])
             made == IF id \in DOMAIN bs THEN bs[id] ELSE <<>>
         IN  GetResult([i \in DOMAIN bs \cup {id} |->
                           IF i = id THEN Append(made, batch_status) ELSE bs[i]],
                       "none", batch_status)

\* get_status up to its await.
BatchGetStatus(batch_id) ==
    /\ pending = <<>>
    /\ pending' = Suspended("get_status", batch_id, LocalRef(batches, batch_id), <<>>, "get")
    /\ out' = BatchReport("get_status", batch_id, <<>>, "await", "none",
                          "GET /batch/{id}", <<>>, "none", <<>>)
    /\ UNCHANGED <<xvars, lvars, batches, polling_tasks, tasks, stops>>

\* get_status from the backend's answer on.
BatchGetStatusReturn(response) ==
    /\ pending # <<>> /\ pending[1].op = "get_status"
    /\ LET c == pending[1]
           r == Refreshed(batches, c.id, c.ref, response)
       IN  /\ batches' = r.batches
           /\ out' = BatchReport("get_status", c.id, <<>>,
                                 IF r.raise = "none" THEN "ok" ELSE "raise", r.raise,
                                 "none", <<>>, IF response.ok THEN "ok" ELSE "fail",
                                 r.value)
    /\ pending' = <<>>
    /\ UNCHANGED <<xvars, lvars, polling_tasks, tasks, stops>>

\* failed_items with every failed item, whatever item_indices is.
FailedItemsUnfiltered(items, item_indices) ==
    SelectSeq(items, LAMBDA item : item.status = "failed")

\* failed_items
FailedItems(items, item_indices) ==
    SelectSeq(items, LAMBDA item :
        /\ item.status = "failed"
        /\ (~item_indices.given \/ item.index \in item_indices.indices))

\* retry up to the await in get_status.
Retry(batch_id, item_indices) ==
    /\ pending = <<>>
    /\ pending' = Suspended("retry", batch_id, LocalRef(batches, batch_id),
                            item_indices, "get")
    /\ out' = BatchReport("retry", batch_id, item_indices, "await", "none",
                          "GET /batch/{id}", <<>>, "none", <<>>)
    /\ UNCHANGED <<xvars, lvars, batches, polling_tasks, tasks, stops>>

\* retry from the answer get_status resumes on, up to its own request.
RetryChecked(response) ==
    /\ pending # <<>> /\ pending[1].op = "retry" /\ pending[1].stage = "get"
    /\ LET c == pending[1]
           r == Refreshed(batches, c.id, c.ref, response)
           answer == IF response.ok THEN "ok" ELSE "fail"
           failed_items == FailedItems(r.value.items, c.arg)
       IN  /\ batches' = r.batches
           /\ IF r.raise # "none"
              THEN /\ out' = BatchReport("retry", c.id, c.arg, "raise", r.raise, "none",
                                         <<>>, answer, <<>>)
                   /\ pending' = <<>>
              ELSE IF r.value.status = "processing"
              THEN /\ out' = BatchReport("retry", c.id, c.arg, "raise",
                                         BATCH_ALREADY_PROCESSING, "none", <<>>, answer,
                                         <<>>)
                   /\ pending' = <<>>
              ELSE IF failed_items = <<>>
              THEN /\ out' = BatchReport("retry", c.id, c.arg, "ok", "none", "none", <<>>,
                                         answer,
                                         BatchSubmitResult(c.id, r.value.status, 0, 0, <<>>))
                   /\ pending' = <<>>
              ELSE /\ out' = BatchReport("retry", c.id, c.arg, "await", "none",
                                         "POST /batch/{id}/retry",
                                         [k \in 1 .. Len(failed_items) |->
                                             failed_items[k].index],
                                         answer, <<>>)
                   /\ pending' = Suspended("retry", c.id, c.ref, c.arg, "post")
    /\ UNCHANGED <<xvars, lvars, polling_tasks, tasks, stops>>

\* retry from the answer to its request on: BatchSubmitResult(**response).
RetryReturn(response) ==
    /\ pending # <<>> /\ pending[1].op = "retry" /\ pending[1].stage = "post"
    /\ LET c == pending[1]
       IN  out' = IF response.ok /\ response.status # "absent"
                  THEN BatchReport("retry", c.id, c.arg, "ok", "none", "none", <<>>,
                                   "sent", BatchSubmitResult(c.id, response.status,
                                                             0, 0, <<>>))
                  ELSE BatchReport("retry", c.id, c.arg, "raise",
                                   IF response.ok THEN ModelError ELSE TransportError,
                                   "none", <<>>, "sent", <<>>)
    /\ pending' = <<>>
    /\ UNCHANGED <<xvars, lvars, batches, polling_tasks, tasks, stops>>

\* -------------------------------------------------------- batch: polling
\* A task running poll_fn for batch_id: pc is where it stands ("start"
\* created, "get" inside get_status at its await, "sleep" at
\* asyncio.sleep, "done" returned), ref the local_batch of its get_status.
\* The rest is history: stopped, its stop function was called; since, how
\* often it has invoked the callback since then (counted up to 2); final,
\* get_status has returned a final status to it.
Task(batch_id, pc, ref, stopped, since, final) ==
    [batch_id |-> batch_id, pc |-> pc, ref |-> ref, stopped |-> stopped,
     since |-> since, final |-> final]

\* _is_final_status of the batch module.
IsFinalBatchStatus(status) == status \in {"completed", "failed"}

\* self._polling_tasks.get(batch_id, False)
IsPolling(batch_id) ==
    IF batch_id \in DOMAIN polling_tasks THEN polling_tasks[batch_id] ELSE FALSE

\* self._polling_tasks[batch_id] = flag
Flagged(flags, batch_id, flag) ==
    [i \in DOMAIN flags \cup {batch_id} |-> IF i = batch_id THEN flag ELSE flags[i]]

\* poll: the flag is set and the task created; it runs later.
Poll(batch_id) ==
    /\ Len(tasks) < MaxTasks
    /\ polling_tasks' = Flagged(polling_tasks, batch_id, TRUE)
    /\ tasks' = Append(tasks, Task(batch_id, "start", 0, FALSE, 0, FALSE))
    /\ out' = BatchReport("poll", batch_id, Len(tasks) + 1, "ok", "none", "none", <<>>,
                          "none", <<>>)
    /\ UNCHANGED <<xvars, lvars, batches, pending, stops>>

\* The stop function poll returned for task t.
StopFunction(t) ==
    /\ t \in 1 .. Len(tasks)
    /\ stops < MaxStops
    /\ stops' = stops + 1
    /\ polling_tasks' = Flagged(polling_tasks, tasks[t].batch_id, FALSE)
    /\ tasks' = [tasks EXCEPT ![t].stopped = TRUE]
    /\ out' = BatchReport("stop", tasks[t].batch_id, t, "ok", "none", "none", <<>>,
                          "none", <<>>)
    /\ UNCHANGED <<xvars, lvars, batches, pending>>

\* stop_polling
StopPolling(batch_id) ==
    /\ stops < MaxStops
    /\ stops' = stops + 1
    /\ polling_tasks' = Flagged(polling_tasks, batch_id, FALSE)
    /\ out' = BatchReport("stop_polling", batch_id, 0, "ok", "none", "none", <<>>,
                          "none", <<>>)
    /\ UNCHANGED <<xvars, lvars, batches, tasks, pending>>

\* stop_all_polling
StopAllPolling ==
    /\ stops < MaxStops
    /\ stops' = stops + 1
    /\ polling_tasks' = [i \in DOMAIN polling_tasks |-> FALSE]
    /\ out' = BatchReport("stop_all_polling", "none", 0, "ok", "none", "none", <<>>,
                          "none", <<>>)
    /\ UNCHANGED <<xvars, lvars, batches, tasks, pending>>

\* poll_fn from its start or from the end of its sleep: the test of the
\* while loop, and get_status up to its await.
PollFnLoop(t) ==
    /\ t \in 1 .. Len(tasks)
    /\ tasks[t].pc \in {"start", "sleep"}
    /\ IF IsPolling(tasks[t].batch_id)
       THEN /\ tasks' = [tasks EXCEPT ![t].pc = "get",
                                      ![t].ref = LocalRef(batches, tasks[t].batch_id)]
            /\ out' = BatchReport("poll_fn", tasks[t].batch_id, t, "await", "none",
                                  "GET /batch/{id}", <<>>, "none", <<>>)
       ELSE /\ tasks' = [tasks EXCEPT ![t].pc = "done"]
            /\ out' = BatchReport("poll_fn", tasks[t].batch_id, t, "ok", "none", "none",
                                  <<>>, "none", <<>>)
    /\ UNCHANGED <<xvars, lvars, batches, polling_tasks, pending, stops>>

\* Where poll_fn goes when get_status has returned status and the callback
\* has run (raised: it raised): out of the loop, or to its sleep.
AfterCallback(status, raised) ==
    IF ~raised /\ IsFinalBatchStatus(status) THEN "done" ELSE "sleep"

\* poll_fn from the answer get_status resumes on up to its sleep or its
\* end: the callback is invoked with what get_status returns, and raises
\* or not (raised).
PollFnGot(t, response, raised) ==
    /\ t \in 1 .. Len(tasks)
    /\ tasks[t].pc = "get"
    /\ LET task == tasks[t]
           r == Refreshed(batches, task.batch_id, task.ref, response)
           answer == IF response.ok THEN "ok" ELSE "fail"
       IN  /\ batches' = r.batches
           /\ IF r.raise # "none"
              THEN /\ ~raised
                   /\ tasks' = [tasks EXCEPT ![t].pc = "sleep"]
                   /\ out' = BatchReport("poll_fn", task.batch_id, t, "raise", r.raise,
                                         "none", <<>>, answer, <<>>)
                   /\ UNCHANGED polling_tasks
              ELSE /\ tasks' = [tasks EXCEPT
                          ![t].pc = AfterCallback(r.value.status, raised),
                          ![t].since = IF task.stopped /\ @ < 2 THEN @ + 1 ELSE @,
                          ![t].final = @ \/ IsFinalBatchStatus(r.value.status)]
                   /\ polling_tasks' =
                         IF AfterCallback(r.value.status, raised) = "done"
                         THEN Flagged(polling_tasks, task.batch_id, FALSE)
                         ELSE polling_tasks
                   /\ out' = BatchReport("poll_fn", task.batch_id, t,
                                         IF raised THEN "raise" ELSE "callback",
                                         IF raised THEN "callback" ELSE "none",
                                         "none", <<>>, answer, r.value)
    /\ UNCHANGED <<xvars, lvars, pending, stops>>

\* The expiry of a record the backend holds.
BackendExpiries == {now + MIN_VALIDITY_SECONDS}

\* -------------------------------------------------------- links: actions
\* A PaymentLinkModule keeps its api_secret and its base_url and nothing
\* else from one call to the next, so a run follows one URL: from generate
\* or from someone's hand, then changed or not, to verify.
\* The clock of the link module advances.
LinkTick ==
    /\ \E t \in Instants : t > clock /\ clock' = t
    /\ UNCHANGED <<xvars, bvars, holding, res>>

\* links.generate(params); the caller holds the URL of the link it returns,
\* and none when it raises.
LinkGenerate ==
    \E params \in LinkParams, payment_id \in PaymentIds :
        LET link == Generate(LinkSecret, PAYMENT_LINK_BASE_URL, params, clock, payment_id)
        IN  /\ holding.origin = "none"
            /\ res' = LinkReport("generate", clock, params, <<>>, link.raise, link, NoResult)
            /\ holding' = IF link.raise = "none"
                          THEN Held(link.url, "generated", NoChange, link, params)
                          ELSE Held(<<>>, "none", NoChange, NoLink, BaseParams)
            /\ UNCHANGED <<xvars, bvars, clock>>

\* Someone changes the link on its way: one query field gets another value
\* (as in test_verify_tampered_link) or is taken out.
LinkChange ==
    /\ holding.origin = "generated"
    /\ \E change \in Changes(holding.link.expiry_ms) :
          /\ change.value # Written(holding.url, change.field)
          /\ holding' = Held(IF change.value = None THEN Removed(holding.url, change.field)
                          ELSE Replaced(holding.url, change.field, change.value),
                          "changed", change, holding.link, holding.params)
          /\ res' = LinkReport("change", clock, holding.params, holding'.url, "none",
                                holding.link, NoResult)
    /\ UNCHANGED <<xvars, bvars, clock>>

\* The caller is given a URL that generate has not made.
LinkCraft ==
    /\ holding.origin = "none"
    /\ \E url \in CraftedUrls :
          /\ holding' = Held(url, "crafted", NoChange, NoLink, BaseParams)
          /\ res' = LinkReport("craft", clock, BaseParams, url, "none", NoLink, NoResult)
    /\ UNCHANGED <<xvars, bvars, clock>>

\* What a call of verify did, at the instant at, with the URL given.
VerifyReport(at, given, call) ==
    LinkReport("verify", at, given.params, given.url, call.raise, given.link, call.result)

\* links.verify(url) of the URL the caller holds.
LinkVerify ==
    /\ holding.origin # "none"
    /\ res' = VerifyReport(clock, holding, VerifyCall(LinkSecret, holding.url, clock))
    /\ UNCHANGED <<xvars, bvars, clock, holding>>

\* The values put for the query fields that are not signed: chains and
\* tokens the SDK supports and others, texts, another payment id.
UnsignedChanges ==
    {Change("chain", v) : v \in {<<"1">>, <<"137">>, <<"solana">>, <<"5">>}}
    \cup {Change("orderId", v) : v \in {<<"order", " ", "2">>}}
    \cup {Change("callback", v) : v \in {CallbackUrl, <<"https://shop.example/cb">>}}
    \cup {Change("chains", v) : v \in {<<"1">>, <<"1", ",", "bitcoin">>, <<"1", ",", "5">>}}
    \cup {Change("tokens", v) : v \in {<<"USDT">>, <<"USDC", ",", "DAI">>, <<"XYZ">>}}
    \cup {Change("id", v) : v \in PaymentIds}

\* url with value for its query field name, which is added when url has
\* none.
Put(url, name, value) ==
    IF Written(url, name) # None THEN Replaced(url, name, value)
    ELSE url \o <<"&", name, "=">> \o QuotePlus(value)

\* What verify returned for a URL and for the URL with a field replaced, at
\* one instant.
ReplaceReport(at, url, change, was, before, after) ==
    [op |-> "replace", at |-> at, url |-> url, change |-> change, was |-> was,
     before |-> before, after |-> after]

\* url with another signature, when it has one.
Forged(url) ==
    IF Written(url, "sig") = None THEN url ELSE Replaced(url, "sig", <<"forged">>)

\* Someone replaces a field that is not signed in the URL the caller holds,
\* taken as it is or with another signature; links.verify(url) is called
\* of the URL before and after.
LinkReplace ==
    /\ holding.origin \in {"generated", "crafted"}
    /\ \E url \in {holding.url, Forged(holding.url)}, change \in UnsignedChanges :
          /\ change.value # Written(url, change.field)
          /\ holding' = Held(Put(url, change.field, change.value), "replaced", change,
                             holding.link, holding.params)
          /\ res' = ReplaceReport(clock, url, change, Written(url, change.field),
                                  Verify(LinkSecret, url, clock),
                                  Verify(LinkSecret, holding'.url, clock))
    /\ UNCHANGED <<xvars, bvars, clock>>

\* The fields given to the two functions that sign, and the order in which
\* the items of normalized are listed before they are sorted.
SignFields(to, amount, token, expiry, memo, order) ==
    [to |-> to, amount |-> amount, token |-> token, expiry |-> expiry, memo |-> memo,
     order |-> order]

SignInputs ==
    {SignFields(to, amount, token, HOUR_MS, memo, order) :
        to \in {<<"0xab">>, <<"0xAB">>, <<"0xcd">>},
        amount \in {<<"100">>, <<"200">>},
        token \in {<<"USDC">>, <<"usdc">>, <<"DAI">>},
        memo \in {None, <<>>, InvoiceMemo},
        order \in {<<1, 2, 3, 4, 5>>, <<5, 3, 1, 4, 2>>}}

\* The items listed in order.
Listed(items, order) == [i \in 1 .. Len(items) |-> items[order[i]]]

\* What the two functions give for fields: the string that is signed,
\* _generate_signature of the module and generate_payment_link_signature.
Signed(fields) ==
    [fields |-> fields,
     data |-> DataToSign(Listed(Normalized(fields.to, fields.amount, fields.token,
                                           fields.expiry, fields.memo), fields.order)),
     signature |-> GenerateSignature(LinkSecret, fields.to, fields.amount, fields.token,
                                     fields.expiry, fields.memo),
     hmac |-> GeneratePaymentLinkSignature(fields.to, fields.amount, fields.token,
                                           fields.expiry, LinkSecret, fields.memo)]

\* The two functions are called for the first fields and for the second.
LinkSign ==
    /\ res.op = "call"
    /\ res' = [op |-> "sign", first |-> Signed(res.first.fields),
               second |-> Signed(res.second.fields)]
    /\ UNCHANGED <<xvars, bvars, clock, holding>>

\* Fields whose texts hold the marks of the string that is signed: a memo
\* that reads on into "&to=", and an address that begins before it.
MovedMemo == <<"a", "&", "to", "=", "0xcd">>
MovedTo == <<"0xcd", "&", "to", "=", "0xab">>

MoveInputs ==
    {SignFields(to, amount, token, HOUR_MS, memo, <<1, 2, 3, 4, 5>>) :
        to \in {<<"0xab">>, <<"0xcd">>, MovedTo},
        amount \in {<<"100">>, <<"200">>},
        token \in {<<"USDC">>, <<"DAI">>},
        memo \in {None, <<>>, <<"a">>, MovedMemo}}

\* The URL of a link with fields for its signed fields and signature for sig.
MovedUrl(fields, signature) ==
    Crafted(fields.to, fields.amount, fields.token, Str(fields.expiry), signature,
            IF Truthy(fields.memo) THEN <<"&">> \o UrlEncode(<< <<"memo", fields.memo>> >>)
            ELSE <<>>)

\* generate is called at the instant 0 for the first fields, to expire after
\* an hour; the link is rewritten to carry the second fields with the
\* signature of the first, and verify is called with it.
LinkMove ==
    /\ res.op = "call"
    /\ res' = [op |-> "move",
               first |-> Signed(res.first.fields),
               second |-> Signed(res.second.fields),
               link |-> Generate(LinkSecret, PAYMENT_LINK_BASE_URL,
                                 PaymentLinkParams(res.first.fields.to, res.first.fields.amount,
                                                   res.first.fields.token, NoChain, 1,
                                                   res.first.fields.memo, None, None, None,
                                                   None),
                                 0, <<"pay_1">>),
               result |-> Verify(LinkSecret,
                                 MovedUrl(res.second.fields,
                                          GenerateSignature(LinkSecret, res.first.fields.to,
                                                            res.first.fields.amount,
                                                            res.first.fields.token,
                                                            res.first.fields.expiry,
                                                            res.first.fields.memo)),
                                 clock)]
    /\ UNCHANGED <<xvars, bvars, clock, holding>>

\* ------------------------------------------------------ webhooks: values
VALID_REQUIRED_FIELD == "PB_VALID_001"
VALID_INVALID_FORMAT == "PB_VALID_002"

SUPPORTED_EVENT_TYPES ==
    {"payment.created", "payment.completed", "payment.failed", "payment.expired",
     "batch.created", "batch.processing", "batch.completed", "batch.failed",
     "x402.created", "x402.signed", "x402.executed", "x402.failed", "x402.expired"}

\* A value of JSON as json.loads gives it: its type, and its text.  A member
\* an object does not have is of the type "absent".
Json(t, v) == [t |-> t, v |-> v]

Absent == Json("absent", "")
JsonNull == Json("null", "null")

\* bool(x) of a value of JSON (not x is its negation).
JsonTruthy(x) ==
    CASE x.t \in {"absent", "null"} -> FALSE
      [] x.t = "string" -> x.v # ""
      [] x.t = "number" -> x.v # "0"
      [] x.t = "bool" -> x.v # "false"
      [] x.t \in {"array", "object"} -> x.v # ""

\* A payload: the kind of text it is ("text" is not JSON, the others are
\* what json.loads returns for it) and, of an object, the members that
\* parse reads.
Payload(json, id, type, timestamp, data, signature) ==
    [json |-> json, id |-> id, type |-> type, timestamp |-> timestamp, data |-> data,
     signature |-> signature]

\* The numbers that are seconds since the epoch of a year datetime has, and
\* the strings datetime.fromisoformat reads once Z is replaced.
EpochSeconds == {"1700000000", "0"}
IsoStrings == {"2024-01-01T00:00:00Z", "2024-01-01"}

\* hmac_sign: the digest of data under secret, an atom made of both.
HmacSign(data, secret) == "hmac256" \o ToString(<<data, secret>>)

\* abs(n)
Abs(n) == IF n < 0 THEN -n ELSE n

\* -------------------------------------------------- webhooks: the module
\* _generate_signature_sync: f"{timestamp}.{payload}" is the pair, the
\* numeral of an integer having no "." in it.
GenerateSignatureSync(payload, secret, timestamp) == HmacSign(<<timestamp, payload>>, secret)

\* timestamp = None for sign.
NoTimestamp == <<>>

\* sign, at the instant now_s (seconds): timestamp is <<>> or <<an integer>>.
SignWebhook(payload, secret, timestamp, now_s) ==
    LET ts == IF timestamp = NoTimestamp \/ timestamp[1] = 0 THEN now_s ELSE timestamp[1]
    IN  <<"t", "=">> \o Str(ts) \o <<",", "v1", "=", GenerateSignatureSync(payload, secret, ts)>>

\* What the loop of _parse_signature_header has after some parts: whether
\* int(value) raised, timestamp and sig.
HeaderParts(raised, timestamp, sig) == [raised |-> raised, timestamp |-> timestamp, sig |-> sig]

\* The body of the loop for part, with the "=" of part at eq (0: none).
HeaderPart(so_far, part, eq) ==
    IF so_far.raised \/ eq = 0 THEN so_far
    ELSE IF SubSeq(part, 1, eq - 1) = <<"t">>
    THEN IF IsInt(SubSeq(part, eq + 1, Len(part)))
         THEN [so_far EXCEPT !.timestamp = IntOf(SubSeq(part, eq + 1, Len(part)))]
         ELSE [so_far EXCEPT !.raised = TRUE]
    ELSE IF SubSeq(part, 1, eq - 1) = <<"v1">>
    THEN [so_far EXCEPT !.sig = SubSeq(part, eq + 1, Len(part))]
    ELSE so_far

\* for part in parts
RECURSIVE HeaderLoop(_, _)
HeaderLoop(so_far, parts) ==
    IF parts = <<>> THEN so_far
    ELSE HeaderLoop(HeaderPart(so_far, Head(parts), Find(Head(parts), "=")), Tail(parts))

\* The timestamp of a header that is not read, in place of None.
NoHeader == HeaderParts(TRUE, 0, <<>>)

\* The end of _parse_signature_header: None unless both were read.
HeaderReturn(read) ==
    IF read.raised \/ read.timestamp = 0 \/ read.sig = <<>> THEN NoHeader ELSE read

\* _parse_signature_header: raised is TRUE when it returns None.
ParseSignatureHeader(header) ==
    HeaderReturn(HeaderLoop(HeaderParts(FALSE, 0, <<>>), Split(header, ",")))

\* is_valid_event_type that takes every type.
AnyEventType(type) == TRUE

\* is_valid_event_type, of a value of JSON
IsValidEventType(type) == type.t = "string" /\ type.v \in SUPPORTED_EVENT_TYPES

\* A WebhookEvent; its timestamp is where it is from: the number or the
\* string of the payload, or the clock.
WebhookEvent(id, type, timestamp, data, signature) ==
    [id |-> id, type |-> type, timestamp |-> timestamp, data |-> data,
     signature |-> signature]

NoEvent == WebhookEvent("", "", "none", "", "")

\* What parse does: it raises (a code of ErrorCodes or the name of an
\* exception), or returns event.
HookParsed(raise, event) == [raise |-> raise, event |-> event]

\* The timestamp of parse: what reading it raises ("none" when it is read).
TimestampRaises(timestamp_value) ==
    IF timestamp_value.t = "bool" THEN "none"
    ELSE IF timestamp_value.t = "number"
    THEN (IF timestamp_value.v \in EpochSeconds THEN "none" ELSE "ValueError")
    ELSE IF timestamp_value.t = "string"
    THEN (IF timestamp_value.v \in IsoStrings THEN "none" ELSE "ValueError")
    ELSE "none"

\* not data.get("id") or not data.get("type")
RequiredFieldMissing(data) == ~JsonTruthy(data.id) \/ ~JsonTruthy(data.type)

\* WebhookModule.parse
ParseWebhook(payload) ==
    IF payload.json = "text" THEN HookParsed(VALID_INVALID_FORMAT, NoEvent)
    ELSE IF payload.json # "object" THEN HookParsed("AttributeError", NoEvent)
    ELSE IF RequiredFieldMissing(payload) THEN HookParsed(VALID_REQUIRED_FIELD, NoEvent)
    ELSE IF ~IsValidEventType(payload.type) THEN HookParsed(VALID_INVALID_FORMAT, NoEvent)
    ELSE IF TimestampRaises(payload.timestamp) # "none"
    THEN HookParsed(TimestampRaises(payload.timestamp), NoEvent)
    ELSE HookParsed("none",
             WebhookEvent(payload.id.v, payload.type.v,
                          IF payload.timestamp.t \in {"number", "bool", "string"}
                          THEN payload.timestamp.t ELSE "now",
                          IF payload.data.t = "absent" THEN "" ELSE payload.data.v,
                          IF payload.signature.t = "absent" THEN "" ELSE payload.signature.v))

\* A WebhookVerificationResult; timestamp_valid is "True", "False" or "None".
WebhookVerificationResult(valid, event, error, timestamp_valid) ==
    [valid |-> valid, event |-> event, error |-> error, timestamp_valid |-> timestamp_valid]

\* What verify does: it raises, or returns result.
HookVerified(raise, result) == [raise |-> raise, result |-> result]

\* The test of the timestamp that every timestamp passes.
AnyTimestampValid(now_s, timestamp, tolerance) == TRUE

\* abs(now - timestamp) <= tolerance
TimestampValid(now_s, timestamp, tolerance) == Abs(now_s - timestamp) <= tolerance

\* The end of the try of verify: event = self.parse(payload), and the return.
VerifyEvent(parsed) ==
    IF parsed.raise # "none" THEN HookVerified(parsed.raise, <<>>)
    ELSE HookVerified("none", WebhookVerificationResult(TRUE, parsed.event, "none", "True"))

\* The try of verify once signature_parts is made.
VerifyParts(payload, parts, secret, tolerance, now_s) ==
    IF parts.raised
    THEN HookVerified("none",
             WebhookVerificationResult(FALSE, NoEvent, "Invalid signature format", "None"))
    ELSE IF ~TimestampValid(now_s, parts.timestamp, tolerance)
    THEN HookVerified("none",
             WebhookVerificationResult(FALSE, NoEvent,
                                       "Webhook timestamp is outside tolerance window", "False"))
    ELSE IF parts.sig # <<GenerateSignatureSync(payload, secret, parts.timestamp)>>
    THEN HookVerified("none",
             WebhookVerificationResult(FALSE, NoEvent, "Invalid webhook signature", "True"))
    ELSE VerifyEvent(ParseWebhook(payload))

\* except Exception as e: the result has str(e) for its error.
HookExcept(tried) ==
    IF tried.raise # "none"
    THEN HookVerified("none", WebhookVerificationResult(FALSE, NoEvent, tried.raise, "None"))
    ELSE tried

\* WebhookModule.verify, at the instant now_s
VerifyWebhook(payload, signature, secret, tolerance, now_s) ==
    HookExcept(VerifyParts(payload, ParseSignatureHeader(signature), secret, tolerance, now_s))

\* ------------------------------------------------------ webhooks: inputs
\* The secret of the tests, and another.
WebhookSecret == "whsec_test_secret_key_12345"
OtherSecret == "whsec_other"

\* The timestamps given to sign: none, zero, an old one, and the first two
\* instants.
SignTimestamps ==
    {NoTimestamp, <<0>>, <<OldTimestamp>>, <<HookEpoch>>,
     <<HookEpoch + DEFAULT_TIMESTAMP_TOLERANCE>>}

\* The tolerances given to verify.
Tolerances == {DEFAULT_TIMESTAMP_TOLERANCE, DEFAULT_TIMESTAMP_TOLERANCE + 1, 0}

\* The payload of test_sign_and_verify.
EventPayload ==
    Payload("object", Json("string", "evt_123"), Json("string", "payment.completed"),
            Absent, Json("object", ""), Absent)

\* Payloads that are an event of a supported type: the timestamp is absent,
\* seconds, milliseconds, a string of ISO 8601, or null.
EventPayloads ==
    {EventPayload,
     [EventPayload EXCEPT !.timestamp = Json("number", "1700000000")],
     [EventPayload EXCEPT !.timestamp = Json("number", "1700000000000")],
     [EventPayload EXCEPT !.timestamp = Json("string", "2024-01-01T00:00:00Z")],
     [EventPayload EXCEPT !.timestamp = JsonNull, !.type = Json("string", "x402.expired"),
                          !.data = Json("object", "payment_id"),
                          !.signature = Json("string", "abc")]}

\* Payloads that are not: text that is not JSON, JSON that is not an
\* object, and objects whose id or type is missing, empty, or not known.
OtherPayloads ==
    {Payload("text", Absent, Absent, Absent, Absent, Absent),
     Payload("array", Absent, Absent, Absent, Absent, Absent),
     [EventPayload EXCEPT !.id = Absent],
     [EventPayload EXCEPT !.id = Json("string", "")],
     [EventPayload EXCEPT !.id = Json("number", "0")],
     [EventPayload EXCEPT !.type = Absent],
     [EventPayload EXCEPT !.type = JsonNull],
     [EventPayload EXCEPT !.id = Absent, !.type = Json("string", "unknown.event")],
     [EventPayload EXCEPT !.type = Json("string", "unknown.event")],
     [EventPayload EXCEPT !.type = Json("number", "5")],
     [EventPayload EXCEPT !.type = Json("string", "Payment.Completed")],
     [EventPayload EXCEPT !.timestamp = Json("string", "yesterday")]}

Payloads == EventPayloads \cup OtherPayloads

\* Headers that sign has not made, for a payload: malformed ones, ones
\* with a signature that is not the module's, and ones with the parts
\* written otherwise.
CraftedHeaders(payload) ==
    {<<"malformed">>,
     <<>>,
     <<"t", "=", "123", ",", "v1", "=", "invalid">>,
     <<"t", "=">> \o Str(HookEpoch) \o <<",", "v1", "=", "invalid">>,
     <<"t", "=", "0", ",", "v1", "=",
       GenerateSignatureSync(payload, WebhookSecret, 0)>>,
     <<"t", "=", "abc", ",", "v1", "=", "invalid">>,
     <<"t", "=">> \o Str(HookEpoch) \o <<",", "v1", "=">>,
     <<"v1", "=", GenerateSignatureSync(payload, WebhookSecret, HookEpoch)>>,
     <<"t", "=">> \o Str(HookEpoch) \o <<",", " ", "v1", "=",
       GenerateSignatureSync(payload, WebhookSecret, HookEpoch)>>,
     <<"v1", "=", GenerateSignatureSync(payload, WebhookSecret, HookEpoch), ",",
       "t", "=", " ", "0">> \o Str(HookEpoch) \o <<",", "v0", "=", "x", ",", "t">>,
     <<"t", "=">> \o Str(HookEpoch) \o <<",", "v1", "=",
       GenerateSignatureSync(payload, WebhookSecret, HookEpoch), ",", "t", "=", "123">>}

\* What the caller holds: a payload and a header for it, made by sign
\* ("signed", with the timestamp and the secret given to sign) or not
\* ("crafted").
HookHeld(payload, header, origin, timestamp, secret) ==
    [payload |-> payload, header |-> header, origin |-> origin, timestamp |-> timestamp,
     secret |-> secret]

NoHookHeld == HookHeld(EventPayload, <<>>, "none", NoTimestamp, WebhookSecret)

\* What a step of the webhook module did: the operation, the instant, what
\* was given to it, and what it raised or returned.
HookReport(op, at, payload, header, secret, tolerance, raise, result, event) ==
    [op |-> op, at |-> at, payload |-> payload, header |-> header, secret |-> secret,
     tolerance |-> tolerance, raise |-> raise, result |-> result, event |-> event]

NoHookResult == WebhookVerificationResult(FALSE, NoEvent, "none", "None")

\* -------------------------------------------------- webhooks: actions
\* The clock of the webhook module advances.
HookTick ==
    /\ \E t \in HookInstants : t > clock /\ clock' = t
    /\ UNCHANGED <<xvars, bvars, holding, res>>

\* sign(payload, secret, timestamp); the caller holds the header.
HookSign ==
    /\ holding.origin = "none"
    /\ \E payload \in Payloads, timestamp \in SignTimestamps :
          /\ holding' = HookHeld(payload,
                                 SignWebhook(payload, WebhookSecret, timestamp, clock),
                                 "signed", timestamp, WebhookSecret)
          /\ res' = HookReport("sign", clock, payload, holding'.header, WebhookSecret, 0,
                               "none", NoHookResult, NoEvent)
    /\ UNCHANGED <<xvars, bvars, clock>>

\* The caller is given a payload and a header that sign has not made.
HookCraft ==
    /\ holding.origin = "none"
    /\ \E payload \in {EventPayload, Payload("text", Absent, Absent, Absent, Absent, Absent)} :
          \E header \in CraftedHeaders(payload) :
              /\ holding' = HookHeld(payload, header, "crafted", NoTimestamp, WebhookSecret)
              /\ res' = HookReport("craft", clock, payload, header, WebhookSecret, 0,
                                   "none", NoHookResult, NoEvent)
    /\ UNCHANGED <<xvars, bvars, clock>>

\* What a call of verify did.
HookVerifyReport(at, given, secret, tolerance, call) ==
    HookReport("verify", at, given.payload, given.header, secret, tolerance, call.raise,
               call.result, NoEvent)

\* verify(payload, signature, secret, tolerance) of what the caller holds.
HookVerify ==
    /\ holding.origin # "none"
    /\ \E secret \in {WebhookSecret, OtherSecret}, tolerance \in Tolerances :
          res' = HookVerifyReport(clock, holding, secret, tolerance,
                     VerifyWebhook(holding.payload, holding.header, secret, tolerance, clock))
    /\ UNCHANGED <<xvars, bvars, clock, holding>>

\* What a call of parse did.
HookParseReport(at, payload, call) ==
    HookReport("parse", at, payload, <<>>, WebhookSecret, 0, call.raise, NoHookResult,
               call.event)

\* parse(payload)
HookParse ==
    /\ \E payload \in Payloads : res' = HookParseReport(clock, payload, ParseWebhook(payload))
    /\ UNCHANGED <<xvars, bvars, clock, holding>>

\* ------------------------------------------------------ addresses
\* The addresses given to is_valid_address and validate_address: ones a
\* pattern matches, alone or before a newline, ones none matches, and ones
\* with a homoglyph in them.
Addresses ==
    {<<"0xab">>, <<"0xAB">>, <<"0xab", LF>>, <<"0xab", " ">>, <<"0xab", "0xcd">>,
     <<"So1ana">>, <<"bc1q">>, <<"invalid">>, <<>>,
     HomoglyphAddress, <<"U+039F">>, <<"So1", "U+039F">>, <<"bc1q", "U+0430">>,
     <<"0xab", "U+0430">>, <<"U+0430", LF>>}

\* The chain hints: none, chains of the three families, one that is not
\* supported and a string that is no chain.
ChainHints == {NoChain, "#1", "#137", "solana", "bitcoin", "#5", "Solana"}

\* What the two functions give for address and chain_id.
AddressReport(op, address, chain_id, is_valid, raise) ==
    [op |-> op, address |-> address, chain_id |-> chain_id, is_valid |-> is_valid,
     raise |-> raise]

\* is_valid_address(address, chain_id) and validate_address(address, chain_id)
AddressValidate ==
    /\ res.op = "call"
    /\ res' = AddressReport("validate", res.address, res.chain_id,
                            IsValidAddressOn(res.address, res.chain_id),
                            ValidateAddress(res.address, res.chain_id))
    /\ UNCHANGED <<xvars, bvars, clock, holding>>

\* --------------------------------------------------------- errors
\* An error code is a sequence of atoms: "_", runs of capital letters and
\* runs of other characters, so that PB_X402_001 is PB, _, X, 402, _, 001.
ErrorCode(category, number) == <<"PB", "_">> \o category \o <<"_", number>>

\* The codes of ErrorCodes.
ErrorCodes ==
    {ErrorCode(<<"AUTH">>, n) : n \in {"001", "002", "003", "004", "005"}}
    \cup {ErrorCode(<<"LINK">>, n) :
             n \in {"001", "002", "003", "004", "005", "006", "007", "008"}}
    \cup {ErrorCode(<<"X", "402">>, n) :
             n \in {"001", "002", "003", "004", "005", "006", "007"}}
    \cup {ErrorCode(<<"BATCH">>, n) : n \in {"001", "002", "003", "004"}}
    \cup {ErrorCode(<<"NET">>, n) : n \in {"001", "002", "003", "004"}}
    \cup {ErrorCode(<<"RATE">>, n) : n \in {"001", "002"}}
    \cup {ErrorCode(<<"VALID">>, n) : n \in {"001", "002", "003"}}
    \cup {ErrorCode(<<"CRYPTO">>, n) : n \in {"001", "002", "003", "004"}}
    \cup {ErrorCode(<<"CHAIN">>, n) : n \in {"001", "002", "003"}}

X402_RELAYER_ERROR == ErrorCode(<<"X", "402">>, "007")
CHAIN_RPC_ERROR == ErrorCode(<<"CHAIN">>, "002")

\* The values of ErrorCategory.
ErrorCategory == {"AUTH", "LINK", "X402", "BATCH", "NET", "RATE", "VALID", "CRYPTO", "CHAIN"}

\* The runs of capital letters that occur.
CapitalRuns ==
    {"PB", "AUTH", "LINK", "X", "BATCH", "NET", "RATE", "VALID", "CRYPTO", "CHAIN", "FOO"}

\* re.match(r"^PB_([A-Z]+)_", code) matches: the group is the third atom.
CategoryMatches(code) ==
    /\ Len(code) >= 4
    /\ code[1] = "PB" /\ code[2] = "_" /\ code[3] \in CapitalRuns /\ code[4] = "_"

\* extract_category
ExtractCategory(code) ==
    IF CategoryMatches(code) /\ code[3] \in ErrorCategory THEN code[3] ELSE "NET"

\* is_retryable
IsRetryable(code) ==
    \/ ExtractCategory(code) \in {"NET", "RATE"}
    \/ code \in {X402_RELAYER_ERROR, CHAIN_RPC_ERROR}

\* category = None and retryable = None for ProtocolBanksError.
NoCategory == "None"
NoFlag == "None"

\* A ProtocolBanksError: its code, category and retryable, and the
\* arguments it was made of.
ProtocolBanksError(op, code, category_arg, retryable_arg, category, retryable) ==
    [op |-> op, code |-> code, category_arg |-> category_arg,
     retryable_arg |-> retryable_arg, category |-> category, retryable |-> retryable]

\* The codes an error is made with: those of ErrorCodes, and strings that
\* are none of them.
GivenCodes ==
    ErrorCodes \cup {ErrorCode(<<"FOO">>, "001"), <<"nope">>, <<>>, <<"PB", "_", "RATE">>}

\* ProtocolBanksError.__init__
ErrorInit ==
    /\ res.op = "call"
    /\ res' = ProtocolBanksError(
                  "error", res.code, res.category_arg, res.retryable_arg,
                  IF res.category_arg # NoCategory THEN res.category_arg
                  ELSE ExtractCategory(res.code),
                  IF res.retryable_arg # NoFlag THEN res.retryable_arg = "True"
                  ELSE IsRetryable(res.code))
    /\ UNCHANGED <<xvars, bvars, clock, holding>>

\* ---------------------------------------------------------- specifications
\* A step of the module: one of the calls on the ids gets to its await or
\* to its end, with at most limit calls in progress; create_authorization
\* gets its params from params and submit_signature its signature from sigs.
StepWith(limit, ids, params, sigs) ==
    \/ Tick
    \/ \E i \in ids, p \in params : CreateAuthorization(limit, i, p)
    \/ \E c \in BagToSet(calls), ok \in BOOLEAN : CreateAuthorizationReturn(c, ok)
    \/ \E i \in ids, s \in sigs : SubmitSignature(limit, i, s)
    \/ \E c \in BagToSet(calls), r \in StatusResponses : SubmitSignatureReturn(c, r)
    \/ \E i \in ids : GetStatus(limit, i)
    \/ \E c \in BagToSet(calls), r \in StatusResponses : GetStatusReturn(c, r)
    \/ \E c \in BagToSet(calls), r \in StatusResponses, e \in BackendExpiries :
            GetStatusFetched(c, r, e)
    \/ \E i \in ids : Cancel(limit, i)
    \/ \E c \in BagToSet(calls), ok \in BOOLEAN : CancelReturn(c, ok)
    \/ CleanupExpired(limit)

Step(limit, ids) == StepWith(limit, ids, CreateParams, Signatures)

\* One call at a time, on any of the ids: the caller awaits each call
\* before it makes the next.
Next == Step(1, Ids)

Spec == Init /\ [][Next]_vars

\* Calls on one authorization overlap: up to MaxCalls at once.
NextConc == Step(MaxCalls, {"x402_a"})

SpecConc == Init /\ [][NextConc]_vars

\* One call at a time on any of the ids, get_pending_authorizations among
\* the calls.
NextPending == Step(1, Ids) \/ GetPendingAuthorizations(1)

SpecPending == Init /\ [][NextPending]_vars

\* One call at a time on one authorization, with the inputs at the edges of
\* the checks.
NextEdge == StepWith(1, {"x402_a"}, CreateParamsEdge, SignaturesEdge)

SpecEdge == Init /\ [][NextEdge]_vars

\* validate, called once on a list of at most MaxRecipients recipients or
\* on a long list.
InitValidate ==
    /\ now = 0 /\ ticks = 0 /\ store = <<>> /\ orphans = <<>> /\ used = {}
    /\ calls = EmptyBag
    /\ ret = Report("init", "none", "ok", "none", "none", "none", "none", 0)
    /\ batches = <<>> /\ polling_tasks = <<>> /\ tasks = <<>> /\ pending = <<>>
    /\ stops = 0
    /\ InitLinks
    /\ \E rs \in RecipientLists(MaxRecipients) \cup LongLists :
          out = BatchReport("call", "none", rs, "none", "none", "none", <<>>, "none", <<>>)

NextValidate == BatchValidate

SpecValidate == InitValidate /\ [][NextValidate]_vars

\* The batch module, called on one batch by a caller that awaits each call.
NextBatch ==
    \/ \E rs \in SubmitLists(MaxRecipients) : BatchSubmit("batch_a", rs)
    \/ \E r \in SubmitResponses : BatchSubmitReturn(r)
    \/ BatchGetStatus("batch_a")
    \/ \E r \in GetResponses : BatchGetStatusReturn(r)
    \/ \E x \in ItemIndices : Retry("batch_a", x)
    \/ \E r \in GetResponses : RetryChecked(r)
    \/ \E r \in SubmitResponses : RetryReturn(r)

SpecBatch == Init /\ [][NextBatch]_vars

\* The polling tasks, beside a caller that starts and stops them.
NextPoll ==
    \/ \E i \in BatchIds : Poll(i)
    \/ \E t \in 1 .. MaxTasks : StopFunction(t)
    \/ \E i \in BatchIds : StopPolling(i)
    \/ StopAllPolling
    \/ \E t \in 1 .. MaxTasks : PollFnLoop(t)
    \/ \E t \in 1 .. MaxTasks, r \in PollResponses, raised \in BOOLEAN : PollFnGot(t, r, raised)

SpecPoll == Init /\ [][NextPoll]_vars

\* The event loop runs a task that can run, and the backend answers or the
\* transport gives up.
SpecPollFair ==
    /\ SpecPoll
    /\ \A t \in 1 .. MaxTasks :
          /\ WF_vars(PollFnLoop(t))
          /\ WF_vars(\E r \in PollResponses, raised \in BOOLEAN : PollFnGot(t, r, raised))

\* The link module: links are generated, changed on their way, written by
\* hand and verified, while the clock advances.
NextLinks ==
    \/ LinkTick
    \/ LinkGenerate
    \/ LinkChange
    \/ LinkCraft
    \/ LinkVerify

SpecLinks == Init /\ [][NextLinks]_vars

\* The link module: links are generated or written by hand, and verified
\* with and without a change of a field that is not signed, while the clock
\* advances.
NextUnsigned ==
    \/ LinkTick
    \/ LinkGenerate
    \/ LinkCraft
    \/ LinkReplace

SpecUnsigned == Init /\ [][NextUnsigned]_vars

\* The two functions that sign, called for two sets of fields.
InitSign ==
    /\ now = 0 /\ ticks = 0 /\ store = <<>> /\ orphans = <<>> /\ used = {}
    /\ calls = EmptyBag
    /\ ret = Report("init", "none", "ok", "none", "none", "none", "none", 0)
    /\ batches = <<>> /\ polling_tasks = <<>> /\ tasks = <<>> /\ pending = <<>>
    /\ stops = 0
    /\ out = BatchReport("init", "none", <<>>, "ok", "none", "none", <<>>, "none", <<>>)
    /\ clock = 0
    /\ holding = Held(<<>>, "none", NoChange, NoLink, BaseParams)
    /\ \E first \in SignInputs, second \in SignInputs :
          res = [op |-> "call",
                 first |-> [fields |-> first, data |-> <<>>, signature |-> <<>>, hmac |-> <<>>],
                 second |-> [fields |-> second, data |-> <<>>, signature |-> <<>>, hmac |-> <<>>]]

NextSign == LinkSign

SpecSign == InitSign /\ [][NextSign]_vars

\* A link is generated for one set of fields and verified with another.
InitMove ==
    /\ now = 0 /\ ticks = 0 /\ store = <<>> /\ orphans = <<>> /\ used = {}
    /\ calls = EmptyBag
    /\ ret = Report("init", "none", "ok", "none", "none", "none", "none", 0)
    /\ batches = <<>> /\ polling_tasks = <<>> /\ tasks = <<>> /\ pending = <<>>
    /\ stops = 0
    /\ out = BatchReport("init", "none", <<>>, "ok", "none", "none", <<>>, "none", <<>>)
    /\ clock = 0
    /\ holding = Held(<<>>, "none", NoChange, NoLink, BaseParams)
    /\ \E first \in MoveInputs, second \in MoveInputs :
          res = [op |-> "call",
                 first |-> [fields |-> first, data |-> <<>>, signature |-> <<>>, hmac |-> <<>>],
                 second |-> [fields |-> second, data |-> <<>>, signature |-> <<>>, hmac |-> <<>>]]

NextMove == LinkMove

SpecMove == InitMove /\ [][NextMove]_vars

\* The two functions that validate an address, for an address and a chain
\* hint.
InitAddress ==
    /\ now = 0 /\ ticks = 0 /\ store = <<>> /\ orphans = <<>> /\ used = {}
    /\ calls = EmptyBag
    /\ ret = Report("init", "none", "ok", "none", "none", "none", "none", 0)
    /\ batches = <<>> /\ polling_tasks = <<>> /\ tasks = <<>> /\ pending = <<>>
    /\ stops = 0
    /\ out = BatchReport("init", "none", <<>>, "ok", "none", "none", <<>>, "none", <<>>)
    /\ clock = 0
    /\ holding = Held(<<>>, "none", NoChange, NoLink, BaseParams)
    /\ \E address \in Addresses, chain_id \in ChainHints :
          res = AddressReport("call", address, chain_id, FALSE, "none")

NextAddress == AddressValidate

SpecAddress == InitAddress /\ [][NextAddress]_vars

\* An error made of a code, with or without a category and a retryable
\* flag.
InitErrors ==
    /\ now = 0 /\ ticks = 0 /\ store = <<>> /\ orphans = <<>> /\ used = {}
    /\ calls = EmptyBag
    /\ ret = Report("init", "none", "ok", "none", "none", "none", "none", 0)
    /\ batches = <<>> /\ polling_tasks = <<>> /\ tasks = <<>> /\ pending = <<>>
    /\ stops = 0
    /\ out = BatchReport("init", "none", <<>>, "ok", "none", "none", <<>>, "none", <<>>)
    /\ clock = 0
    /\ holding = Held(<<>>, "none", NoChange, NoLink, BaseParams)
    /\ \E code \in GivenCodes, category_arg \in {NoCategory, "VALID"},
          retryable_arg \in {NoFlag, "True", "False"} :
          res = ProtocolBanksError("call", code, category_arg, retryable_arg, "none", FALSE)

NextErrors == ErrorInit

SpecErrors == InitErrors /\ [][NextErrors]_vars

\* The webhook module: sign, verify and parse as the clock advances.
InitHooks ==
    /\ now = 0 /\ ticks = 0 /\ store = <<>> /\ orphans = <<>> /\ used = {}
    /\ calls = EmptyBag
    /\ ret = Report("init", "none", "ok", "none", "none", "none", "none", 0)
    /\ batches = <<>> /\ polling_tasks = <<>> /\ tasks = <<>> /\ pending = <<>>
    /\ stops = 0
    /\ out = BatchReport("init", "none", <<>>, "ok", "none", "none", <<>>, "none", <<>>)
    /\ clock = HookEpoch
    /\ holding = NoHookHeld
    /\ res = HookReport("init", HookEpoch, EventPayload, <<>>, WebhookSecret, 0, "none",
                        NoHookResult, NoEvent)

NextHooks == HookTick \/ HookSign \/ HookCraft \/ HookVerify \/ HookParse

SpecHooks == InitHooks /\ [][NextHooks]_vars

\* ------------------------------------------------------------------ claims
\* The part of a call up to its await (or to its return or raise, when it
\* never awaits); the other steps of a call resume on an answer.
BeginStep(r) == r.answer = "none"

\* C1: every change of a stored authorization's status is one of
\* pending->signed, signed->submitted, submitted->executed,
\* submitted->failed, pending->expired, signed->expired, pending->cancelled,
\* signed->cancelled.
C1_OnlyLegalTransitions ==
    [][\A i \in DOMAIN store \cap DOMAIN store' :
         store'[i].status # store[i].status =>
            <<store[i].status, store'[i].status>> \in
                { <<"pending", "signed">>, <<"signed", "submitted">>,
                  <<"submitted", "executed">>, <<"submitted", "failed">>,
                  <<"pending", "expired">>, <<"signed", "expired">>,
                  <<"pending", "cancelled">>, <<"signed", "cancelled">> }]_vars

\* C2: when cancel(id) has run and returned while submit_signature(id) was
\* suspended at the relay, the status is cancelled once submit_signature
\* has finished too.
C2_CancelSurvivesSubmit ==
    [][\A c \in BagToSet(calls) :
         ( /\ c.op = "submit" /\ c.ref = Stored
           /\ ret.op = "cancel" /\ ret.id = c.id /\ ret.result = "ok"
           /\ store[c.id].status = "cancelled"
           /\ ret'.op = "submit" /\ ret'.id = c.id /\ ~BeginStep(ret') )
         => store'[c.id].status = "cancelled"]_vars

\* C3: once a stored authorization is executed, failed, expired or
\* cancelled, no submit_signature, get_status or cancel changes its status,
\* and submit_signature and cancel on it raise.
C3_TerminalIsFinal ==
    [][\A i \in DOMAIN store \cap DOMAIN store' :
         ( /\ store[i].status \in {"executed", "failed", "expired", "cancelled"}
           /\ ret'.op \in {"submit", "get_status", "cancel"} )
         => /\ store'[i].status = store[i].status
            /\ (ret'.op \in {"submit", "cancel"} /\ ret'.id = i /\ BeginStep(ret'))
                  => ret'.result = "raise"]_vars

\* C4: submit_signature on a stored authorization whose valid_before has
\* passed raises the authorization-expired error, sends nothing to the
\* relay and leaves the status expired.
C4_SubmitAfterExpiry ==
    [][\A i \in DOMAIN store :
         ( /\ ret'.op = "submit" /\ ret'.id = i /\ BeginStep(ret')
           /\ now > store[i].expires_at )
         => /\ ret'.result = "raise" /\ ret'.err = X402_AUTHORIZATION_EXPIRED
            /\ ret'.req = "none" /\ calls' = calls
            /\ i \in DOMAIN store' /\ store'[i].status = "expired"]_vars

C4_Witness ==
    /\ ret.op = "submit" /\ ret.result = "raise"
    /\ ret.id \in DOMAIN store
    /\ now > store[ret.id].expires_at
    /\ store[ret.id].status = "expired"
    /\ store[ret.id].signature = <<>>

\* C5: cancel(id) goes through exactly when id is stored with status pending
\* or signed, and then sets the status to cancelled and returns; otherwise
\* it raises and leaves the store as it is.
C5_CancelExactly ==
    [][\A i \in Ids :
         /\ (ret'.op = "cancel" /\ ret'.id = i /\ BeginStep(ret')) =>
              IF i \in DOMAIN store /\ store[i].status \in {"pending", "signed"}
              THEN /\ ret'.result = "await"
                   /\ store' = [store EXCEPT ![i].status = "cancelled"]
              ELSE /\ ret'.result = "raise"
                   /\ store' = store /\ calls' = calls
         /\ (ret'.op = "cancel" /\ ret'.id = i /\ ~BeginStep(ret')) =>
              /\ ret'.result = "ok"
              /\ store' = store /\ store[i].status = "cancelled"]_vars

C5_Witness ==
    /\ ret.op = "cancel" /\ ret.result = "ok"
    /\ store[ret.id].status = "cancelled"
    /\ store[ret.id].signature # <<>>

\* C6: when the relay submission fails, submit_signature raises the error
\* and the stored authorization has status failed and the submitted
\* signature; when it succeeds, the status is the one the relay reports,
\* submitted when it reports none.
C6_RelayOutcome ==
    [][\A c \in BagToSet(calls) :
         (c.op = "submit" /\ ret'.op = "submit" /\ ret'.id = c.id /\ ~BeginStep(ret')) =>
            /\ c.id \in DOMAIN store'
            /\ store'[c.id].signature = c.sig
            /\ store'[c.id].expires_at = store[c.id].expires_at
            /\ IF ret'.answer = "fail"
               THEN /\ ret'.result = "raise" /\ ret'.err = TransportError
                    /\ store'[c.id].status = "failed"
               ELSE /\ ret'.result = "ok"
                    /\ store'[c.id].status =
                          IF ret'.answer = "absent" THEN "submitted" ELSE ret'.answer
                    /\ ret'.status = store'[c.id].status]_vars

C6_Witness ==
    /\ ret.op = "submit" /\ ret.result = "raise" /\ ret.answer = "fail"
    /\ store[ret.id].status = "failed"
    /\ store[ret.id].signature # <<>>

\* C7: get_status of a stored id never raises; a pending record past
\* valid_before is returned expired; a record in a terminal status is
\* returned without a request to the backend; when the refresh fails the
\* cached record is returned with its status as it was.
C7_GetStatusCached ==
    [][/\ \A i \in DOMAIN store :
            (ret'.op = "get_status" /\ ret'.id = i /\ BeginStep(ret')) =>
               /\ ret'.result # "raise"
               /\ (store[i].status = "pending" /\ now > store[i].expires_at) =>
                     /\ ret'.result = "ok" /\ ret'.status = "expired"
                     /\ store'[i].status = "expired"
               /\ store[i].status \in {"executed", "failed", "expired", "cancelled"} =>
                     /\ ret'.result = "ok" /\ ret'.req = "none" /\ calls' = calls
                     /\ ret'.status = store[i].status /\ store' = store
       /\ \A c \in BagToSet(calls) :
            ( /\ c.op = "get_status" /\ c.ref = Stored
              /\ ret'.op = "get_status" /\ ret'.id = c.id /\ ~BeginStep(ret') ) =>
               /\ ret'.result = "ok"
               /\ ret'.answer = "fail" =>
                     ret'.status = store[c.id].status /\ store' = store]_vars

C7_Witness ==
    /\ ret.op = "get_status" /\ ret.result = "ok" /\ ret.answer = "fail"
    /\ ret.status = "signed"
    /\ store[ret.id].status = "signed"

\* C8: create_authorization, submit_signature, get_status and cancel remove
\* no id from the store, whether they return or raise.
C8_OnlyCleanupRemoves ==
    [][ret'.op # "cleanup" => DOMAIN store \subseteq DOMAIN store']_vars

C8_Witness ==
    /\ ret.op = "submit" /\ ret.result = "raise"
    /\ ret.id \in DOMAIN store
    /\ store[ret.id].status = "expired"
    /\ Cardinality(DOMAIN store) = 2

\* C9: cleanup_expired removes exactly the records whose expires_at has
\* passed, whatever their status, returns how many it removed, and leaves
\* the other records as they were.
C9_CleanupExactly ==
    [][ret'.op = "cleanup" =>
         /\ DOMAIN store' = {i \in DOMAIN store : ~(now > store[i].expires_at)}
         /\ ret'.result = "ok"
         /\ ret'.n = Cardinality(DOMAIN store \ DOMAIN store')
         /\ \A i \in DOMAIN store' : store'[i] = store[i]]_vars

C9_Witness ==
    /\ ret.op = "cleanup" /\ ret.n = 1
    /\ \E i \in DOMAIN store : store[i].status = "submitted" /\ ~(now > store[i].expires_at)

\* C10: a backend failure in create_authorization's registration or in
\* cancel's notification does not reach the caller: the call returns, and
\* the store is the one a successful backend call leaves (the new record
\* pending, the cancelled record cancelled).
C10_BestEffortBackend ==
    [][\A c \in BagToSet(calls) :
         ( /\ c.op \in {"create", "cancel"}
           /\ ret'.op = c.op /\ ret'.id = c.id /\ ~BeginStep(ret') ) =>
            /\ ret'.result = "ok" /\ ret'.err = "none"
            /\ store' = store
            /\ c.id \in DOMAIN store
            /\ store[c.id].status = IF c.op = "create" THEN "pending" ELSE "cancelled"]_vars

C10_Witness ==
    /\ ret.op = "create" /\ ret.result = "ok" /\ ret.answer = "fail"
    /\ store[ret.id].status = "pending"

\* C11: create_authorization with valid_for below 60 or above 86400 raises
\* and stores no record, and the error is the out-of-range error (address,
\* amount and token being valid, which are checked first); otherwise it
\* does not raise that error and the record it creates has valid_after =
\* now, valid_before = now + valid_for (3600 when valid_for is omitted), at
\* most 86400 after valid_after, and expires_at = valid_before.
C11_ValidityWindow ==
    [][(ret'.op = "create" /\ BeginStep(ret')) =>
         LET v == ret'.params.valid_for
         IN  IF v # NoValidFor /\ (v < 60 \/ v > 86400)
             THEN /\ ret'.result = "raise" /\ store' = store /\ calls' = calls
                  /\ ret'.params.ok => ret'.err = VALID_OUT_OF_RANGE
             ELSE /\ ret'.err # VALID_OUT_OF_RANGE
                  /\ ret'.result = "await" =>
                        /\ ret'.id \notin DOMAIN store
                        /\ store'[ret'.id].valid_after = now
                        /\ store'[ret'.id].valid_before =
                              now + (IF v = NoValidFor THEN 3600 ELSE v)
                        /\ store'[ret'.id].valid_before
                              - store'[ret'.id].valid_after <= 86400
                        /\ store'[ret'.id].expires_at = store'[ret'.id].valid_before]_vars

C11_Witness ==
    /\ ret.op = "create" /\ ret.result = "await"
    /\ ret.params.valid_for = 86400
    /\ now > 0
    /\ store[ret.id].valid_after = now
    /\ store[ret.id].expires_at = now + 86400

\* C12: create_authorization stores a record only when the chain id is one
\* of 1, 137, 8453, 42161, 10 and the token is USDC or DAI with gasless
\* support on that chain; for every other chain and token it raises and
\* leaves the store unchanged, and the error is the unsupported-chain or
\* the unsupported-token error (when the parameter validation, which comes
\* first, passes).
C12_GaslessAllowList ==
    [][(ret'.op = "create" /\ BeginStep(ret')) =>
         LET p == ret'.params
             allowed == /\ p.chain_id \in {1, 137, 8453, 42161, 10}
                        /\ p.token \in {"USDC", "DAI"}
                        /\ p.token \in DOMAIN CHAIN_CONFIGS[p.chain_id]
                        /\ CHAIN_CONFIGS[p.chain_id][p.token]
             validated == /\ p.ok
                          /\ p.valid_for = NoValidFor
                                \/ (p.valid_for >= 60 /\ p.valid_for <= 86400)
         IN  /\ store' # store => allowed
             /\ ~allowed =>
                   /\ ret'.result = "raise" /\ store' = store /\ calls' = calls
                   /\ validated =>
                         ret'.err \in {X402_UNSUPPORTED_CHAIN, X402_UNSUPPORTED_TOKEN}]_vars

C12_Witness ==
    /\ ret.op = "create" /\ ret.result = "raise"
    /\ ret.err = X402_UNSUPPORTED_TOKEN
    /\ ret.params.chain_id = 8453 /\ ret.params.token = "DAI"
    /\ store # <<>>

\* C13: submit_signature on a stored authorization that has not expired,
\* with a signature that is not 0x followed by exactly 130 hex digits,
\* raises the invalid-signature error, sends nothing to the relay and
\* leaves the authorization's status and signature unchanged.
C13_SignatureFormat ==
    [][\A i \in DOMAIN store :
         ( /\ ret'.op = "submit" /\ ret'.id = i /\ BeginStep(ret')
           /\ ~(now > store[i].expires_at)
           /\ ~(ret'.sig.prefix = "0x" /\ ret'.sig.digits = 130 /\ ret'.sig.tail = "") )
         => /\ ret'.result = "raise" /\ ret'.err = X402_INVALID_SIGNATURE
            /\ ret'.req = "none" /\ calls' = calls
            /\ store'[i].status = store[i].status
            /\ store'[i].signature = store[i].signature]_vars

\* The checks recipient violates, by the text of their messages.
Violations(recipient) ==
    (IF recipient.address.body = "" THEN {"Address is required"}
     ELSE IF recipient.address.homoglyphs > 0
     THEN {"Address contains suspicious characters (possible homoglyph attack)"}
     ELSE IF ~recipient.address.evm THEN {"Invalid address format"}
     ELSE {})
    \cup
    (IF recipient.amount.empty THEN {"Amount is required"}
     ELSE IF ~( /\ recipient.amount.units > 0 \/ recipient.amount.hundredths >= 1
                /\ \/ recipient.amount.units < 1000000000
                   \/ ( /\ recipient.amount.units = 1000000000
                        /\ recipient.amount.hundredths = 0 ) )
     THEN {"Invalid amount (must be positive, max 1 billion)"}
     ELSE {})
    \cup
    (IF recipient.token = "" THEN {"Token is required"}
     ELSE IF recipient.token \notin
                {"USDC", "USDT", "DAI", "ETH", "MATIC", "BNB", "SOL", "BTC", "usdc"}
     THEN {"Unsupported token: {token}"}
     ELSE {})
    \cup
    (IF recipient.memo > 256 THEN {"Memo exceeds maximum length of 256 characters"}
     ELSE {})

\* C16: submit of a list in which a recipient has a violation other than a
\* duplicate warning returns status failed with the entries of the
\* recipients that have such a violation as errors and valid_count +
\* invalid_count = the number of recipients, sends nothing to the backend
\* and stores no batch; a list whose only findings are duplicate warnings
\* is submitted.
C16_CriticalBlocksSubmit ==
    [][(out'.op = "submit" /\ out'.answer = "none" /\ Len(out'.arg) > 0) =>
         LET recipients == out'.arg
             critical == {i \in 1 .. Len(recipients) : Violations(recipients[i]) # {}}
         IN  IF critical # {}
             THEN /\ out'.result = "ok"
                  /\ out'.value.status = "failed"
                  /\ out'.value.valid_count + out'.value.invalid_count = Len(recipients)
                  /\ {out'.value.errors[k].index : k \in 1 .. Len(out'.value.errors)}
                        = {i - 1 : i \in critical}
                  /\ out'.req = "none"
                  /\ batches' = batches /\ pending' = pending
             ELSE /\ out'.result = "await"
                  /\ out'.req = "POST /batch/submit"]_vars

\* C17: when validation passed and the backend submit call fails, submit
\* raises that error and the batch stored under the generated batch_id has
\* status failed; when the backend succeeds the stored batch has the status
\* the backend reports, pending when it reports none.
C17_SubmitOutcome ==
    [][(out'.op = "submit" /\ out'.answer # "none") =>
         /\ out'.id \in DOMAIN batches'
         /\ LET batch == batches'[out'.id][Len(batches'[out'.id])]
                before == batches[out'.id][Len(batches[out'.id])]
            IN  /\ batch.progress = before.progress /\ batch.items = before.items
                /\ IF out'.answer = "fail"
                   THEN /\ out'.result = "raise" /\ out'.err = TransportError
                        /\ batch.status = "failed"
                   ELSE /\ out'.result = "ok"
                        /\ batch.status =
                              IF out'.answer = "absent" THEN "pending" ELSE out'.answer
                        /\ out'.value.status = batch.status
                        /\ out'.value.batch_id = out'.id]_vars

C17_Witness ==
    /\ out.op = "submit" /\ out.result = "raise" /\ out.answer = "fail"
    /\ Len(out.arg) = 2
    /\ batches[out.id][1].status = "failed"
    /\ Len(batches[out.id][1].items) = 2

\* C18: retry raises the already-processing error and sends no retry request
\* when the status of the batch (as get_status gives it) is processing;
\* otherwise the indices it sends are exactly those of the items whose
\* status is failed and, when item_indices is given, that are in
\* item_indices, and it sends no request when there is none.
C18_RetryFailedOnly ==
    [][(out'.op = "retry" /\ out'.answer \in {"ok", "fail"}) =>
         IF out'.id \notin DOMAIN batches'
         THEN out'.result = "raise" /\ out'.req = "none"
         ELSE LET batch == batches'[out'.id][Len(batches'[out'.id])]
                  wanted == {batch.items[j].index : j \in
                               {j \in 1 .. Len(batch.items) :
                                   /\ batch.items[j].status = "failed"
                                   /\ (out'.arg.given =>
                                          batch.items[j].index \in out'.arg.indices)}}
              IN  IF batch.status = "processing"
                  THEN /\ out'.result = "raise" /\ out'.err = BATCH_ALREADY_PROCESSING
                       /\ out'.req = "none" /\ out'.sent = <<>>
                  ELSE IF wanted = {}
                  THEN out'.result = "ok" /\ out'.req = "none" /\ out'.sent = <<>>
                  ELSE /\ out'.result = "await"
                       /\ out'.req = "POST /batch/{id}/retry"
                       /\ {out'.sent[k] : k \in 1 .. Len(out'.sent)} = wanted
                       /\ Len(out'.sent) = Cardinality(wanted)]_vars

C18_Witness ==
    /\ out.op = "retry" /\ out.req = "POST /batch/{id}/retry"
    /\ out.arg.given /\ out.arg.indices = {0, 2}
    /\ out.sent = <<2, 0>>
    /\ batches[out.id][1].status = "failed"

\* C19: when the backend fetch fails, get_status returns the locally stored
\* batch with status, progress and items unchanged if there is one, and it
\* raises the batch-not-found error only if there is none.
C19_FetchFallback ==
    [][(out'.op = "get_status" /\ out'.answer # "none") =>
         /\ out'.answer = "fail" =>
               IF out'.id \in DOMAIN batches
               THEN /\ out'.result = "ok"
                    /\ out'.value = batches[out'.id][Len(batches[out'.id])]
                    /\ batches' = batches
               ELSE /\ out'.result = "raise" /\ out'.err = BATCH_NOT_FOUND
                    /\ batches' = batches
         /\ out'.result = "raise" =>
               out'.err = BATCH_NOT_FOUND /\ out'.id \notin DOMAIN batches]_vars

C19_Witness ==
    /\ out.op = "get_status" /\ out.answer = "fail" /\ out.result = "ok"
    /\ out.value.status = "processing"
    /\ out.value.items # <<>>
    /\ batches[out.id][1] = out.value

C14_StopEndsPolling ==
    [][/\ \A t \in 1 .. Len(tasks') : tasks'[t].since <= 1
       /\ (out'.op = "stop" /\ tasks[out'.arg].stopped) =>
             polling_tasks' = polling_tasks]_vars

\* C15: once get_status has returned completed or failed to a polling task
\* (and the task has invoked the callback with it), the task makes no
\* further get_status call; and before that, an exception raised in an
\* iteration, by get_status or by the callback, does not end the task.
C15_FinalEndsPolling ==
    [][\A t \in 1 .. Len(tasks) :
         /\ tasks[t].final => ~(tasks[t].pc # "get" /\ tasks'[t].pc = "get")
         /\ ( /\ out'.op = "poll_fn" /\ out'.arg = t /\ out'.result = "raise"
              /\ tasks[t].pc = "get" /\ ~tasks'[t].final ) => tasks'[t].pc # "done"]_vars

\* The addresses of two recipients are the same string when letter case is
\* ignored.
SameAddress(a, b) ==
    /\ a.address.body = b.address.body
    /\ a.address.homoglyphs = b.address.homoglyphs
    /\ a.address.evm = b.address.evm

\* The indices (from 0) of the recipients that share the address of the
\* recipient at index i, that one included.
Sharing(recipients, i) ==
    {j \in 0 .. (Len(recipients) - 1) : SameAddress(recipients[i + 1], recipients[j + 1])}

\* C21: the list validate returns is in strictly ascending index order (so
\* it has at most one entry per index), and it has an entry for index i
\* exactly when recipient i has a violation or shares its address, letter
\* case ignored, with another recipient.
C21_EntriesByIndex ==
    (out.op = "validate" /\ out.result = "ok") =>
        /\ \A k \in 1 .. Len(out.value), l \in 1 .. Len(out.value) :
              k < l => out.value[k].index < out.value[l].index
        /\ \A i \in 0 .. (Len(out.arg) - 1) :
              (\E k \in 1 .. Len(out.value) : out.value[k].index = i)
                <=> \/ Violations(out.arg[i + 1]) # {}
                    \/ Cardinality(Sharing(out.arg, i)) > 1

\* A recipient without a violation of its own, before one with a violation,
\* before one that shares the address of the first: all three have entries.
C21_Witness ==
    /\ out.op = "validate" /\ out.result = "ok" /\ Len(out.arg) = 3
    /\ Violations(out.arg[1]) = {} /\ Violations(out.arg[2]) # {}
    /\ Sharing(out.arg, 0) = {0, 2}
    /\ Len(out.value) = 3

\* The messages of entry e that are a duplicate warning.
DuplicateWarnings(e) ==
    {j \in 1 .. Len(e.errors) : e.errors[j].text = "Duplicate address (appears {n} times)"}

\* C22: when the address of recipient i occurs N > 1 times among the
\* recipients, letter case ignored, index i has an entry with exactly one
\* "Duplicate address (appears N times)" message, carrying that N; the
\* message is added after the violations of an entry that has some, and
\* is otherwise the only message of a new entry.
C22_DuplicateWarning ==
    (out.op = "validate" /\ out.result = "ok") =>
        \A i \in 0 .. (Len(out.arg) - 1) :
            LET N == Cardinality(Sharing(out.arg, i))
                violations == Violations(out.arg[i + 1])
            IN  (out.arg[i + 1].address.body # "" /\ N > 1) =>
                    \E k \in 1 .. Len(out.value) :
                        LET e == out.value[k]
                        IN  /\ e.index = i
                            /\ DuplicateWarnings(e) = {Len(e.errors)}
                            /\ e.errors[Len(e.errors)].n = N
                            /\ Len(e.errors) = Cardinality(violations) + 1
                            /\ violations =
                                 {e.errors[j].text : j \in 1 .. (Len(e.errors) - 1)}

\* An address three times: once with a violation of its own, twice without.
C22_Witness ==
    /\ out.op = "validate" /\ out.result = "ok" /\ Len(out.arg) = 3
    /\ Sharing(out.arg, 0) = {0, 1, 2} /\ out.arg[1].address.body # ""
    /\ Violations(out.arg[1]) = {} /\ Violations(out.arg[2]) # {}
    /\ Len(out.value) = 3 /\ out.value[1].errors = <<DuplicateMessage(3)>>
    /\ Len(out.value[2].errors) > 1

\* The batch is made of one recipient whose only violation is its address,
\* one recipient without a violation, and one more without a violation
\* that has the address of that one.
OneInvalidOneDuplicate(recipients) ==
    /\ Len(recipients) = 3
    /\ \E i \in 0 .. 2 :
          /\ Violations(recipients[i + 1]) \in
                {{"Invalid address format"},
                 {"Address contains suspicious characters (possible homoglyph attack)"},
                 {"Address is required"}}
          /\ \A j \in (0 .. 2) \ {i} :
                /\ Violations(recipients[j + 1]) = {}
                /\ Sharing(recipients, j) = (0 .. 2) \ {i}

\* C23, as stated: validate on a batch of one recipient with an invalid
\* address and one recipient that duplicates the address of a valid
\* recipient returns exactly two entries, in ascending index order.
C23_TwoEntries ==
    (out.op = "validate" /\ OneInvalidOneDuplicate(out.arg)) =>
        /\ out.result = "ok" /\ Len(out.value) = 2
        /\ out.value[1].index < out.value[2].index

\* C23, amended: validate on such a batch returns exactly three entries, in
\* ascending index order: one for the recipient with the invalid address,
\* and one for each of the two recipients that share an address, the valid
\* recipient included.
C23_ThreeEntries ==
    (out.op = "validate" /\ OneInvalidOneDuplicate(out.arg)) =>
        /\ out.result = "ok" /\ Len(out.value) = 3
        /\ \A k \in 1 .. 3 : out.value[k].index = k - 1
        /\ \A k \in 1 .. 3 :
              IF Violations(out.arg[k]) = {}
              THEN out.value[k].errors = <<DuplicateMessage(2)>>
              ELSE Len(out.value[k].errors) = 1 /\ DuplicateWarnings(out.value[k]) = {}

\* The recipient with the invalid address stands between the two others.
C23_Witness ==
    /\ out.op = "validate" /\ OneInvalidOneDuplicate(out.arg)
    /\ Violations(out.arg[2]) = {"Invalid address format"}
    /\ Len(out.value) = 3

C25_GenerateThenVerify ==
    (res.op = "verify" /\ holding.origin = "generated" /\ res.url = res.link.url
        /\ res.at < res.link.expiry_ms) =>
        /\ res.result.valid
        /\ ~res.result.expired
        /\ res.result.tampered_fields = <<>>

\* A link whose memo, order id and callback have the characters a query
\* string gives a meaning to, verified an hour after it was made.
C25_Witness ==
    /\ res.op = "verify" /\ holding.origin = "generated" /\ res.url = res.link.url
    /\ res.params.memo = MarksMemo /\ res.params.callback_url = CallbackUrl
    /\ res.link.created_ms < res.at /\ res.at < res.link.expiry_ms
    /\ res.result.valid

\* The URL verified is a generated link in which the value of amount or of
\* exp was replaced by another one.
NumericFieldReplaced ==
    /\ res.op = "verify" /\ holding.origin = "changed" /\ res.url = holding.url
    /\ holding.change.field \in {"amount", "exp"}
    /\ holding.change.value # None
    /\ holding.change.value # Written(res.link.url, holding.change.field)

\* The value put for amount is a string that is not empty; the value put
\* for exp is a numeral of an integer that is not the expiry of the link.
OtherNumber ==
    \/ holding.change.field = "amount" /\ holding.change.value # <<>>
    \/ /\ holding.change.field = "exp" /\ IsInt(holding.change.value)
       /\ IntOf(holding.change.value) # res.link.expiry_ms

\* The value put for exp is another numeral of the expiry of the link.
SameNumber ==
    /\ holding.change.field = "exp" /\ IsInt(holding.change.value)
    /\ IntOf(holding.change.value) = res.link.expiry_ms

\* C26, as stated: for a generated link, replacing the value of amount or
\* of exp with any different value before verify yields valid = false and
\* tampered_fields = ["signature"].
C26_AnyOtherValue ==
    NumericFieldReplaced =>
        ~res.result.valid /\ res.result.tampered_fields = <<"signature">>

\* C26, amended: replacing the value of amount with a different string
\* that is not empty, or the value of exp with a numeral of a different
\* integer, yields valid = false and tampered_fields = ["signature"];
\* replacing exp with another numeral of the same integer leaves the
\* result what it is for the link as generated; replacing either value
\* with the empty string, or exp with a string that is no integer, yields
\* valid = false, expired = false and tampered_fields = [] with the
\* format error.
C26_OtherNumber ==
    NumericFieldReplaced =>
        IF OtherNumber
        THEN ~res.result.valid /\ res.result.tampered_fields = <<"signature">>
        ELSE IF SameNumber
        THEN res.result = Verify(LinkSecret, res.link.url, res.at)
        ELSE res.result = LinkVerificationResult(FALSE, FALSE, <<>>, FALSE,
                                                 "Invalid payment link URL format", FALSE)

\* A link of one hour whose exp was put one hour later, verified after the
\* hour: not expired, and not valid.
C26_Witness ==
    /\ NumericFieldReplaced /\ holding.change.field = "exp"
    /\ IsInt(holding.change.value)
    /\ res.link.expiry_ms < res.at /\ res.at < IntOf(holding.change.value)
    /\ ~res.result.expired /\ ~res.result.valid
    /\ res.result.tampered_fields = <<"signature">>

\* The URL verified is a link: it has what _parse_url asks for, its expiry
\* timestamp among it.
LinkVerified == res.op = "verify" /\ ParseUrl(res.url, res.at).ok

\* C27: verify of a link at an instant strictly after the expiry timestamp
\* of the link returns expired = true and valid = false, whether the sig of
\* the link is the signature of its fields or not.
C27_ExpiredAfterExpiry ==
    (LinkVerified /\ res.at > ParseUrl(res.url, res.at).expiry) =>
        res.result.expired /\ ~res.result.valid

\* The URL verified has a value for each of to, amount, sig and exp, and
\* the value of to has a confusable character in it.
HomoglyphUrlVerified ==
    /\ res.op = "verify"
    /\ \A name \in {"to", "amount", "sig", "exp"} : Truthy(Written(res.url, name))
    /\ ContainsHomoglyphs(Written(res.url, "to"))

\* verify reports the homoglyphs: valid = false, tampered_fields = ["to"]
\* and a homoglyph report.
HomoglyphsReported ==
    /\ ~res.result.valid
    /\ res.result.tampered_fields = <<"to">>
    /\ res.result.homoglyph_detected

\* C28, as stated: verify of a URL whose to has a confusable character
\* returns valid = false with tampered_fields = ["to"] and a homoglyph
\* report, whatever the value of sig is.
C28_AnyHomoglyphUrl == HomoglyphUrlVerified => HomoglyphsReported

\* C28, amended: verify of such a URL returns valid = false with
\* tampered_fields = ["to"] and a homoglyph report, whatever the value of
\* sig is, when the URL is one that _parse_url accepts (exp is an integer,
\* token and chain are of the declared values); when it is not, verify
\* returns valid = false with tampered_fields = [], the format error and no
\* homoglyph report.
C28_HomoglyphLink ==
    HomoglyphUrlVerified =>
        IF ParseUrl(res.url, res.at).ok
        THEN HomoglyphsReported
        ELSE /\ ~res.result.valid /\ res.result.tampered_fields = <<>>
             /\ ~res.result.homoglyph_detected
             /\ res.result.error = "Invalid payment link URL format"

\* A URL whose to has a Cyrillic a and whose sig is what the module
\* computes for its fields.
C28_Witness ==
    /\ HomoglyphUrlVerified /\ ParseUrl(res.url, res.at).ok
    /\ ParseUrl(res.url, res.at).signature =
          ExpectedSignature(LinkSecret, ParseUrl(res.url, res.at).params,
                            ParseUrl(res.url, res.at).expiry)
    /\ res.at < ParseUrl(res.url, res.at).expiry
    /\ HomoglyphsReported

\* The result verify returns for a URL it cannot use.
FormatError ==
    LinkVerificationResult(FALSE, FALSE, <<>>, FALSE, "Invalid payment link URL format", FALSE)

\* C29: verify raises nothing: for every string given to it, it returns a
\* result; and when the query of the string has no value for one of to,
\* amount, sig and exp, the result is valid = false, expired = false and
\* tampered_fields = [] with the format error message.
C29_VerifyReturns ==
    res.op = "verify" =>
        /\ res.raise = "none"
        /\ (\E name \in {"to", "amount", "sig", "exp"} : Written(res.url, name) = None)
              => res.result = FormatError

\* A generated link that lost its sig on the way, verified after its
\* expiry.
C29_Witness ==
    /\ res.op = "verify" /\ holding.origin = "changed"
    /\ holding.change = Change("sig", None)
    /\ Written(res.url, "sig") = None
    /\ res.at > res.link.expiry_ms
    /\ res.raise = "none" /\ res.result = FormatError

\* Two strings are the same but for the case of their letters.
SameButCase(s, t) ==
    /\ Len(s) = Len(t)
    /\ \A i \in 1 .. Len(s) :
          s[i] = t[i] \/ {s[i], t[i]} \in {{"0xab", "0xAB"}, {"USDC", "usdc"}}

\* Two sets of fields have the same normalized values: the same amount and
\* expiry, the same address and token but for the case of letters, and
\* the same memo, an absent memo being the same as the empty one.
SameNormalized(a, b) ==
    /\ a.amount = b.amount /\ a.expiry = b.expiry
    /\ SameButCase(a.to, b.to) /\ SameButCase(a.token, b.token)
    /\ a.memo = b.memo \/ {a.memo, b.memo} = {None, <<>>}

\* The keys of a canonical string, in the order it lists them.
KeysListed(data) == [i \in 1 .. Len(Split(data, "&")) |-> Split(data, "&")[i][1]]

\* C30: with one secret, two sets of fields that have the same normalized
\* values (a change of letter case in the address or in the token, an
\* empty memo for an absent one) get the same canonical string and the
\* same signature, from _generate_signature and from
\* generate_payment_link_signature; and the canonical string lists the
\* fields by sorted key, in whatever order the items were listed.
C30_NormalizedOnly ==
    res.op = "sign" =>
        /\ SameNormalized(res.first.fields, res.second.fields) =>
              /\ res.first.data = res.second.data
              /\ res.first.signature = res.second.signature
              /\ res.first.hmac = res.second.hmac
        /\ KeysListed(res.first.data) = <<"amount", "expiry", "memo", "to", "token">>

\* An address in lower and in upper case, a token in upper and in lower
\* case, a memo absent and empty, the items listed in two orders.
C30_Witness ==
    /\ res.op = "sign"
    /\ res.first.fields.to = <<"0xab">> /\ res.second.fields.to = <<"0xAB">>
    /\ res.first.fields.token = <<"USDC">> /\ res.second.fields.token = <<"usdc">>
    /\ res.first.fields.memo = None /\ res.second.fields.memo = <<>>
    /\ res.first.fields.order # res.second.fields.order
    /\ res.first.fields.amount = res.second.fields.amount
    /\ res.first.signature = res.second.signature
    /\ res.first.hmac = res.second.hmac
    /\ res.first.signature # res.first.hmac

\* The payload is a well-formed event of a supported type: an object with a
\* non-empty string for id, a supported type, and for timestamp nothing, a
\* number of seconds or of milliseconds, or a string of ISO 8601.
WellFormedEvent(payload) ==
    /\ payload.json = "object"
    /\ payload.id.t = "string" /\ payload.id.v # ""
    /\ payload.type.t = "string" /\ payload.type.v \in SUPPORTED_EVENT_TYPES
    /\ payload.timestamp.t \in {"absent", "null", "number", "string"}
    /\ payload.timestamp.t = "string" => payload.timestamp.v \in IsoStrings

\* verify was called with the secret, the payload and the header of a call
\* sign(P, S, T) with a timestamp T, P being a well-formed supported event.
SignedVerified ==
    /\ res.op = "verify" /\ holding.origin = "signed"
    /\ holding.timestamp # NoTimestamp /\ res.secret = holding.secret
    /\ WellFormedEvent(holding.payload)

\* C31: for a header made by sign(P, S, T) of a well-formed supported event
\* P, verify(P, header, S, tolerance) at the instant now returns valid = true
\* exactly when |now - T| <= tolerance, and when |now - T| > tolerance it
\* returns valid = false with timestamp_valid = false.
C31_ValidWithinTolerance ==
    SignedVerified =>
        /\ res.raise = "none"
        /\ res.result.valid <=> Abs(res.at - holding.timestamp[1]) <= res.tolerance
        /\ Abs(res.at - holding.timestamp[1]) > res.tolerance =>
              ~res.result.valid /\ res.result.timestamp_valid = "False"

\* The header given to the verify reported in res, as the module reads it.
HeaderRead == ParseSignatureHeader(res.header)

\* C32: verify never raises; it returns valid = true only when the header
\* parses, the timestamp is within the tolerance and the signature is the
\* recomputed one; a timestamp outside the tolerance gives
\* timestamp_valid = false whatever the signature is; and the result has
\* an event exactly when valid = true.
C32_BothChecksGate ==
    res.op = "verify" =>
        /\ res.raise = "none"
        /\ res.result.valid =>
              /\ ~HeaderRead.raised
              /\ Abs(res.at - HeaderRead.timestamp) <= res.tolerance
              /\ HeaderRead.sig
                   = <<GenerateSignatureSync(res.payload, res.secret, HeaderRead.timestamp)>>
        /\ (~HeaderRead.raised /\ Abs(res.at - HeaderRead.timestamp) > res.tolerance) =>
              ~res.result.valid /\ res.result.timestamp_valid = "False"
        /\ res.result.event # NoEvent <=> res.result.valid

\* A header with an old timestamp and a signature that is not the module's.
C32_Witness ==
    /\ res.op = "verify" /\ ~HeaderRead.raised
    /\ Abs(res.at - HeaderRead.timestamp) > res.tolerance
    /\ HeaderRead.sig # <<GenerateSignatureSync(res.payload, res.secret, HeaderRead.timestamp)>>
    /\ res.result.timestamp_valid = "False" /\ ~res.result.valid

\* C33: parse of a JSON object that lacks a non-empty id or a non-empty
\* type raises the required-field error, whatever the type is; with both
\* present and the type outside the supported event types it raises the
\* invalid-format error; and a payload that is not JSON raises the
\* invalid-format error.
C33_ParseErrors ==
    res.op = "parse" =>
        /\ (res.payload.json = "object"
              /\ (~JsonTruthy(res.payload.id) \/ ~JsonTruthy(res.payload.type))) =>
              res.raise = VALID_REQUIRED_FIELD
        /\ (res.payload.json = "object"
              /\ JsonTruthy(res.payload.id) /\ JsonTruthy(res.payload.type)
              /\ ~(res.payload.type.t = "string"
                     /\ res.payload.type.v \in SUPPORTED_EVENT_TYPES)) =>
              res.raise = VALID_INVALID_FORMAT
        /\ res.payload.json = "text" => res.raise = VALID_INVALID_FORMAT

\* An object without id whose type is not a supported one: the
\* required-field error is the one raised.
C33_Witness ==
    /\ res.op = "parse" /\ res.payload.json = "object"
    /\ res.payload.id = Absent /\ res.payload.type = Json("string", "unknown.event")
    /\ res.raise = VALID_REQUIRED_FIELD

\* C34: for every address and every chain hint, an address with a character
\* of the confusable map in it makes is_valid_address return false and
\* validate_address raise the homoglyph error, not the format error; and
\* is_valid_address returns true exactly when validate_address does not
\* raise.
C34_HomoglyphFirst ==
    res.op = "validate" =>
        /\ (\E i \in 1 .. Len(res.address) : res.address[i] \in ALL_HOMOGLYPHS) =>
              ~res.is_valid /\ res.raise = LINK_HOMOGLYPH_DETECTED
        /\ res.is_valid <=> res.raise = "none"

\* An address with a homoglyph, given with the hint of a chain whose
\* pattern it would not match either.
C34_Witness ==
    /\ res.op = "validate" /\ res.address = <<"So1", "U+039F">> /\ res.chain_id = "solana"
    /\ ~res.is_valid /\ res.raise = LINK_HOMOGLYPH_DETECTED

\* The category an error code is named after: what stands between PB_ and
\* the next "_".
NamedCategory(code) ==
    IF Len(code) >= 4 /\ code[1] = "PB" /\ code[2] = "_"
    THEN SubSeq(code, 3, 2 + Find(SubSeq(code, 3, Len(code)), "_") - 1)
    ELSE <<>>

\* C35: an error made without a retryable flag is retryable for every code
\* of the NET and RATE categories and not retryable for every code of the
\* VALID, AUTH, LINK, X402 and BATCH categories.
C35_RetryableByCategory ==
    (res.op = "error" /\ res.retryable_arg = NoFlag /\ res.code \in ErrorCodes) =>
        /\ NamedCategory(res.code) \in {<<"NET">>, <<"RATE">>} => res.retryable
        /\ NamedCategory(res.code)
             \in {<<"VALID">>, <<"AUTH">>, <<"LINK">>, <<"X", "402">>, <<"BATCH">>} =>
              ~res.retryable

\* C36: submit_signature sends a relay submission for an authorization only
\* when the status of its record is pending; called on a record that is
\* signed, submitted or in a terminal status it raises and sends no
\* request.
C36_SubmitOnlyPending ==
    [][\A i \in Ids :
         (ret'.op = "submit" /\ ret'.id = i /\ BeginStep(ret')) =>
             /\ ret'.req = "POST /x402/submit" =>
                   i \in DOMAIN store /\ store[i].status = "pending"
             /\ (i \in DOMAIN store /\ store[i].status # "pending") =>
                   ret'.result = "raise" /\ ret'.req = "none"]_vars

AppliedWhole(old, response) ==
    BatchStatus(IF response.status = "absent" THEN old.status ELSE response.status,
                response.progress[1],
                IF response.items = <<>> THEN <<>> ELSE response.items[1])

\* C38: get_status on a locally stored batch updates it atomically: after it
\* the stored batch either has the status, the progress and the items of one
\* response of the backend, or is unchanged in all three; it never has a new
\* status beside the old progress or items.
C38_AtomicRefresh ==
    [][(out'.op = "get_status" /\ out'.answer # "none" /\ out'.id \in DOMAIN batches) =>
         LET ref == Len(batches[out'.id])
             old == batches[out'.id][ref]
             new == batches'[out'.id][ref]
         IN  \/ new = old
             \/ \E response \in GetResponses :
                    /\ response.ok /\ response.progress # <<>>
                    /\ new = AppliedWhole(old, response)]_vars

\* C39: the canonical signing string is injective on normalized field sets:
\* two sets of (to, amount, token, expiry, memo) that differ after
\* normalization get different canonical strings, so a link generated for
\* one of them and rewritten to carry the other, with the content moved for
\* example between memo and to, is not verified as valid.
C39_CanonicalInjective ==
    (res.op = "move" /\ ~SameNormalized(res.first.fields, res.second.fields)) =>
        /\ res.first.data # res.second.data
        /\ res.link.raise = "none" => ~res.result.valid

\* A value that pydantic takes for a field that is not signed: supported
\* chains for chain and chains, supported tokens for tokens, any text for
\* the others.
WellFormedUnsigned(field, value) ==
    CASE field = "chain" -> ChainOfStr(value) \in SUPPORTED_CHAIN_IDS
      [] field = "chains" ->
            \A i \in 1 .. Len(Split(value, ",")) :
                ChainOfStr(Split(value, ",")[i]) \in SUPPORTED_CHAIN_IDS
      [] field = "tokens" ->
            \A i \in 1 .. Len(Split(value, ",")) :
                /\ Len(Split(value, ",")[i]) = 1
                /\ Split(value, ",")[i][1] \in SUPPORTED_TOKENS
      [] OTHER -> TRUE

\* C40: the outcome of verify does not depend on the query fields chain,
\* orderId, callback, chains, tokens and id, which are not signed: a link
\* that has none or a well-formed value for one of them, given another
\* well-formed value for it, gets the same valid, expired and
\* tampered_fields at the same instant.
C40_UnsignedIgnored ==
    (/\ res.op = "replace"
     /\ WellFormedUnsigned(res.change.field, res.change.value)
     /\ res.was = None \/ WellFormedUnsigned(res.change.field, res.was)) =>
        /\ res.after.valid = res.before.valid
        /\ res.after.expired = res.before.expired
        /\ res.after.tampered_fields = res.before.tampered_fields

\* A valid link for chain 137 is as valid when its chain reads solana.
C40_Witness ==
    /\ res.op = "replace"
    /\ res.change = Change("chain", <<"solana">>) /\ res.was = <<"137">>
    /\ res.before.valid /\ res.after.valid
    /\ ~res.before.expired /\ res.before.tampered_fields = <<>>

====
